---- MODULE Spec2Model ----
(***************************************************************************)
(* Model of the funfunzmc table engine: the authorization gate, the       *)
(* filter composer, the pagination applier, the primary-key resolver, the *)
(* promise chains of the TableController handlers, the distinct-value     *)
(* cache, the hooks and the relation resolver.                            *)
(***************************************************************************)
EXTENDS Integers, Sequences, FiniteSets, TLC

VARIABLES
  fn,       \* pure-function harness: name of the function under evaluation
  arg,      \* pure-function harness: its input
  ret,      \* pure-function harness: its output ("pending" until applied)
  pc,       \* controller: position of the request in the handler's promise chain
  req,      \* controller: the request being handled
  authz,    \* controller: result of hasAuthorization for the request ("none" before)
  trace,    \* controller: store queries, hook calls and response writes, in order
  nextArgs, \* controller: arguments of every call of next(), in order
  rejected, \* controller: the rejection travelling down the promise chain
  QUERY,    \* controller: the query builder of the request
  cache,    \* data: the metle cache of the process, key "distinct_" + column
  hookResult, \* data: what the before hook of the request resolved to
  results,  \* data: the rows or values travelling down the promise chain
  tasks     \* data: the relation sub-queries of a getRow request

vars == <<fn, arg, ret, pc, req, authz, trace, nextArgs, rejected, QUERY,
          cache, hookResult, results, tasks>>

pureVars == <<fn, arg, ret>>
ctlVars == <<pc, req, authz, trace, nextArgs, rejected, QUERY>>
dataVars == <<cache, hookResult, results, tasks>>

----------------------------------------------------------------------------
(* Bounds *)

\* longest required-role list drawn for hasAuthorization
MaxRoles == 2

\* longest page / limit string drawn for paginate
MaxStr == 2

\* largest page / limit number drawn for paginate
MaxNum == 3

\* most keys in a drawn primary-key payload
MaxPK == 3

\* most keys in a drawn filter map
MaxFilters == 2

\* longest list value in a drawn filter map
MaxList == 2

----------------------------------------------------------------------------
(* JavaScript values *)

\* role names that occur in configurations and sessions
RoleNames == {"", "all", "admin", "editor", "unauthenticated"}

\* result of Array.prototype.find over strings: the element or undefined
JSUndefined == [defined |-> FALSE, str |-> ""]
JSString(s) == [defined |-> TRUE, str |-> s]

\* ToBoolean of a string-or-undefined: undefined and "" are falsy
ToBoolean(v) == v.defined /\ v.str # ""

\* a roles value as hasAuthorization receives it
RolesUndefined == [kind |-> "undefined", items |-> <<>>,
                   read |-> <<>>, write |-> <<>>, delete |-> <<>>]
RolesArray(l) == [kind |-> "array", items |-> l,
                  read |-> <<>>, write |-> <<>>, delete |-> <<>>]
RolesObject(r, w, d) == [kind |-> "object", items |-> <<>>,
                         read |-> r, write |-> w, delete |-> d]

\* roles[accessType]
RolesIndex(roles, accessType) ==
  IF roles.kind = "object"
  THEN RolesArray(CASE accessType = "read" -> roles.read
                    [] accessType = "write" -> roles.write
                    [] OTHER -> roles.delete)
  ELSE RolesUndefined

\* req.user: absent, or a session user with role names
NoUser == [present |-> FALSE, roles |-> {}]
User(rs) == [present |-> TRUE, roles |-> rs]

----------------------------------------------------------------------------
(* Authorization gate *)

\* the default parameter value of hasAuthorization
DefaultUser == User({"unauthenticated"})

\* roles.find(role => role === 'all' || !!user.roles.find(u => u.name === role))
RolesFind(items, userRoles) ==
  LET hits == {i \in 1..Len(items) : items[i] = "all" \/ items[i] \in userRoles}
  IN IF hits = {} THEN JSUndefined
     ELSE JSString(items[CHOOSE i \in hits : \A j \in hits : i <= j])

hasAuthorization(roles, user) ==
  LET u == IF user.present THEN user ELSE DefaultUser
  IN IF roles.kind = "array" /\ Len(roles.items) # 0
     THEN ToBoolean(RolesFind(roles.items, u.roles))
     ELSE TRUE

----------------------------------------------------------------------------
(* Idle values of the variable groups *)

NotReturned == [done |-> FALSE]
NoRejection == [name |-> "none", status |-> 0, message |-> <<>>]
NoRequest == [op |-> "none"]
Unset == [set |-> FALSE, nan |-> FALSE, n |-> 0]
NoDistinct == [set |-> FALSE, columns |-> <<>>]
EmptyQuery ==
  [table |-> "", distinct |-> NoDistinct, wheres |-> <<>>, orderBy |-> <<>>, offset |-> Unset,
   limit |-> Unset]
NoHookResult == [t |-> "undefined", filter |-> [present |-> FALSE, entries |-> <<>>]]
NoResults == [toAdd |-> <<>>, rows |-> <<>>, data |-> <<>>, columns |-> <<>>]

PureIdle == fn = "none" /\ arg = <<>> /\ ret = NotReturned
CtlIdle ==
  /\ pc = "idle" /\ req = NoRequest /\ authz = "none" /\ trace = <<>>
  /\ nextArgs = <<>> /\ rejected = NoRejection /\ QUERY = EmptyQuery

DataIdle ==
  /\ cache = <<>> /\ hookResult = NoHookResult /\ results = NoResults
  /\ tasks = <<>>

Range(f) == {f[i] : i \in DOMAIN f}

\* all sequences over S of length at most n
SeqsUpTo(S, n) == UNION {[1..k -> S] : k \in 0..n}

----------------------------------------------------------------------------
(* hasAuthorization applied to drawn role lists and callers *)

AuthCallers == {NoUser} \cup {User(rs) : rs \in SUBSET RoleNames}

InitAuth ==
  /\ fn = "hasAuthorization"
  /\ arg \in [roles : SeqsUpTo(RoleNames, MaxRoles), user : AuthCallers]
  /\ ret = NotReturned
  /\ CtlIdle
  /\ DataIdle

CallHasAuthorization ==
  /\ fn = "hasAuthorization" /\ ~ret.done
  /\ ret' = [done |-> TRUE, val |-> hasAuthorization(RolesArray(arg.roles), arg.user)]
  /\ UNCHANGED <<fn, arg, ctlVars, dataVars>>

NextAuth == CallHasAuthorization

SpecAuth == InitAuth /\ [][NextAuth]_vars

\* the caller role set C of a drawn caller: an absent user is {"unauthenticated"}
CallerRoles(user) == IF user.present THEN user.roles ELSE {"unauthenticated"}

\* C2: hasAuthorization(R, C) is true iff R is empty, or R contains "all", or some
\* role name is in both R and C (any role-name strings, the empty string included).
C2_AuthorizeIff ==
  (fn = "hasAuthorization" /\ ret.done) =>
    (ret.val <=> (\/ arg.roles = <<>>
                  \/ "all" \in Range(arg.roles)
                  \/ Range(arg.roles) \cap CallerRoles(arg.user) # {}))

----------------------------------------------------------------------------
(* Pagination applier *)

\* characters of the page / limit strings
Chars == {"0", "1", "2", "-", "a"}
AllDigits == <<"0", "1", "2", "3", "4", "5", "6", "7", "8", "9">>
Digits == Range(AllDigits)
DigitValue(c) == (CHOOSE i \in 1..10 : AllDigits[i] = c) - 1

\* JavaScript values of request parameters, filter values and cells
JSUndef == [t |-> "undefined", n |-> 0, s |-> <<>>, items |-> <<>>]
JSNull == [t |-> "null", n |-> 0, s |-> <<>>, items |-> <<>>]
JSNum(n) == [t |-> "number", n |-> n, s |-> <<>>, items |-> <<>>]
JSStr(s) == [t |-> "string", n |-> 0, s |-> s, items |-> <<>>]
JSArr(l) == [t |-> "array", n |-> 0, s |-> <<>>, items |-> l]

\* a JavaScript number: an integer or NaN
Num(n) == [nan |-> FALSE, n |-> n]
NaN == [nan |-> TRUE, n |-> 0]

\* if (v): undefined, 0 and "" are falsy
Truthy(v) ==
  CASE v.t = "undefined" -> FALSE
    [] v.t = "number" -> v.n # 0
    [] OTHER -> v.s # <<>>

\* length of the longest prefix of s made of digits
RECURSIVE DigitPrefix(_)
DigitPrefix(s) ==
  IF s = <<>> \/ Head(s) \notin Digits THEN 0 ELSE 1 + DigitPrefix(Tail(s))

\* decimal value of a sequence of digits
RECURSIVE DecimalValue(_)
DecimalValue(s) ==
  IF s = <<>> THEN 0
  ELSE 10 * DecimalValue(SubSeq(s, 1, Len(s) - 1)) + DigitValue(s[Len(s)])

\* parseInt(s, 10): optional sign, then the leading digits; NaN when there are none
parseInt(s) ==
  LET neg == s # <<>> /\ Head(s) = "-"
      body == IF neg THEN Tail(s) ELSE s
      k == DigitPrefix(body)
  IN IF k = 0 THEN NaN
     ELSE Num((IF neg THEN -1 ELSE 1) * DecimalValue(SubSeq(body, 1, k)))

\* typeof v === 'string' ? parseInt(v, 10) : v
ToNumber(v) == IF v.t = "string" THEN parseInt(v.s) ELSE Num(v.n)

\* a * b and a > 0 on JavaScript numbers
Times(a, b) == IF a.nan \/ b.nan THEN NaN ELSE Num(a.n * b.n)
Positive(a) == ~a.nan /\ a.n > 0

Applied(x) == [set |-> TRUE, nan |-> x.nan, n |-> x.n]

\* paginate with the page number itself as the offset
paginate_OffsetIsPage(query, page, limit) ==
  LET PAGE_NUMBER == IF Truthy(page) THEN ToNumber(page) ELSE Num(0)
      LIMIT == IF Truthy(limit) THEN ToNumber(limit) ELSE Num(10)
  IN IF Positive(LIMIT)
     THEN [query EXCEPT !.offset = Applied(PAGE_NUMBER), !.limit = Applied(LIMIT)]
     ELSE query

paginate(query, page, limit) ==
  LET PAGE_NUMBER == IF Truthy(page) THEN ToNumber(page) ELSE Num(0)
      LIMIT == IF Truthy(limit) THEN ToNumber(limit) ELSE Num(10)
  IN IF Positive(LIMIT)
     THEN [query EXCEPT !.offset = Applied(Times(PAGE_NUMBER, LIMIT)),
                        !.limit = Applied(LIMIT)]
     ELSE query

(* paginate applied to drawn page and limit values *)

PaginateInputs ==
  {JSUndef} \cup {JSNum(n) : n \in (-1..MaxNum) \cup {10}}
            \cup {JSStr(s) : s \in SeqsUpTo(Chars, MaxStr)}

InitPaginate ==
  /\ fn = "paginate"
  /\ arg \in [page : PaginateInputs, limit : PaginateInputs]
  /\ ret = NotReturned
  /\ CtlIdle
  /\ DataIdle

CallPaginate ==
  /\ fn = "paginate" /\ ~ret.done
  /\ ret' = [done |-> TRUE, val |-> paginate(EmptyQuery, arg.page, arg.limit)]
  /\ UNCHANGED <<fn, arg, ctlVars, dataVars>>

NextPaginate == CallPaginate

SpecPaginate == InitPaginate /\ [][NextPaginate]_vars

\* a numeric string: an optional minus sign followed by one or more digits
IsNumericString(s) ==
  /\ s # <<>>
  /\ LET body == IF Head(s) = "-" THEN Tail(s) ELSE s
     IN body # <<>> /\ \A i \in 1..Len(body) : body[i] \in Digits

\* value of a numeric string, read digit by digit from the left
RECURSIVE LeftValue(_, _)
LeftValue(s, acc) ==
  IF s = <<>> THEN acc ELSE LeftValue(Tail(s), 10 * acc + DigitValue(Head(s)))
NumericStringValue(s) ==
  IF Head(s) = "-" THEN 0 - LeftValue(Tail(s), 0) ELSE LeftValue(s, 0)

\* a page / limit given as a number or as a numeric string, and its value
IsNumeric(v) == v.t = "number" \/ (v.t = "string" /\ IsNumericString(v.s))
ValueOf(v) == IF v.t = "number" THEN v.n ELSE NumericStringValue(v.s)

\* C8: whenever the limit is <= 0, given as a number or as a numeric string (in
\* particular page=0, limit=0), the query gets neither an offset nor a limit.
C8_NonPositiveLimitUnbounded ==
  (fn = "paginate" /\ ret.done /\ IsNumeric(arg.limit) /\ ValueOf(arg.limit) <= 0) =>
    (~ret.val.offset.set /\ ~ret.val.limit.set)

\* C9: for every page >= 0 and limit > 0 given as numbers or numeric strings,
\* paginate applies offset = page * limit and limit = limit; a missing page
\* counts as 0 and a missing limit counts as 10.
C9_OffsetIsPageTimesLimit ==
  (/\ fn = "paginate" /\ ret.done
   /\ arg.page.t = "undefined" \/ (IsNumeric(arg.page) /\ ValueOf(arg.page) >= 0)
   /\ arg.limit.t = "undefined" \/ (IsNumeric(arg.limit) /\ ValueOf(arg.limit) > 0)) =>
    LET p == IF arg.page.t = "undefined" THEN 0 ELSE ValueOf(arg.page)
        l == IF arg.limit.t = "undefined" THEN 10 ELSE ValueOf(arg.limit)
    IN /\ ret.val.offset = [set |-> TRUE, nan |-> FALSE, n |-> p * l]
       /\ ret.val.limit = [set |-> TRUE, nan |-> FALSE, n |-> l]

\* paginate(q, "2", "10") has been applied: offset 20, limit 10
C9_Witness ==
  /\ fn = "paginate" /\ ret.done
  /\ arg.page = JSStr(<<"2">>) /\ arg.limit = JSStr(<<"1", "0">>)
  /\ ret.val.offset.n = 20 /\ ret.val.limit.n = 10

----------------------------------------------------------------------------
(* Errors, table configurations *)

\* new HttpException(status, message); other Error objects carry no status
HttpException(status, message) ==
  [name |-> "HttpException", status |-> status, message |-> message]
TypeError(message) == [name |-> "TypeError", status |-> 0, message |-> message]
NoError == NoRejection

\* TABLE_CONFIG.pk: a column name or a list of column names
PKString(name) == [isArray |-> FALSE, name |-> name, items |-> <<>>]
PKArray(names) == [isArray |-> TRUE, name |-> "", items |-> names]

Column(name, type) == [name |-> name, type |-> type]

\* the column declarations of the configured tables
ProductsColumns ==
  <<Column("id", "int(11)"), Column("stock", "smallint(5)"),
    Column("created", "datetime"), Column("name", "varchar(255)")>>
OrdersColumns ==
  <<Column("a", "int(11)"), Column("b", "varchar(255)"), Column("c", "varchar(255)")>>
TagsColumns == <<Column("code", "varchar(255)"), Column("label", "varchar(255)")>>

\* the shape of a table: name, columns, primary key
Shape(name, columns, pk) == [name |-> name, columns |-> columns, pk |-> pk]
TableShapes ==
  { Shape("products", ProductsColumns, PKString("id")),
    Shape("orders", OrdersColumns, PKArray(<<"a", "b">>)),
    Shape("tags", TagsColumns, PKArray(<<"code">>)) }

\* getColumnsByName: the declared column names, and the declaration of each
ColumnNames(TABLE_CONFIG) == {TABLE_CONFIG.columns[i].name : i \in DOMAIN TABLE_CONFIG.columns}
getColumnsByName(TABLE_CONFIG) ==
  [name \in ColumnNames(TABLE_CONFIG) |->
     LET is == {i \in DOMAIN TABLE_CONFIG.columns : TABLE_CONFIG.columns[i].name = name}
     IN TABLE_CONFIG.columns[CHOOSE i \in is : \A j \in is : j <= i]]

----------------------------------------------------------------------------
(* Query builder *)

\* String(v) as '%' + v + '%' builds it
RECURSIVE NatToChars(_)
NatToChars(n) ==
  IF n < 10 THEN <<AllDigits[n + 1]>> ELSE NatToChars(n \div 10) \o <<AllDigits[(n % 10) + 1]>>
ToChars(v) ==
  CASE v.t = "string" -> v.s
    [] v.t = "number" -> IF v.n < 0 THEN <<"-">> \o NatToChars(0 - v.n) ELSE NatToChars(v.n)
    [] v.t = "null" -> <<"n", "u", "l", "l">>
    [] OTHER -> <<>>

\* one call on the query builder
Where(method, column, operator, value) ==
  [method |-> method, column |-> column, operator |-> operator, value |-> value]

AddWhere(QRY, w) == [QRY EXCEPT !.wheres = Append(@, w)]

LikePattern(v) == JSStr(<<"%">> \o ToChars(v) \o <<"%">>)

----------------------------------------------------------------------------
(* Primary-key resolver *)

\* body.pk: the payload's keys in Object.keys order, with their values
PKKeys(pk) == [i \in DOMAIN pk |-> pk[i].key]

Threw(err) == [threw |-> TRUE, error |-> err, query |-> EmptyQuery]
Returned(QRY) == [threw |-> FALSE, error |-> NoError, query |-> QRY]

\* the for loop of applyPKFilters from position index on
RECURSIVE PKLoop(_, _, _, _)
PKLoop(QRY, pk, TABLE_CONFIG, index) ==
  IF index > Len(pk) THEN Returned(QRY)
  ELSE
    LET key == pk[index].key
        valid == IF TABLE_CONFIG.pk.isArray
                 THEN key \in Range(TABLE_CONFIG.pk.items)
                 ELSE TABLE_CONFIG.pk.name = key
        columnsByName == getColumnsByName(TABLE_CONFIG)
    IN IF ~valid
       THEN Threw(HttpException(412, <<"Primary key ", key, " missing on table">>))
       ELSE IF key \notin DOMAIN columnsByName
       THEN Threw(TypeError(<<"Cannot read property 'type' of undefined">>))
       ELSE IF columnsByName[key].type = "int(11)"
       THEN PKLoop(AddWhere(QRY, Where(IF index = 1 THEN "where" ELSE "andWhere",
                                       key, "=", pk[index].value)),
                   pk, TABLE_CONFIG, index + 1)
       ELSE PKLoop(AddWhere(QRY, Where(IF index = 1 THEN "where" ELSE "andWhere",
                                       key, "like", LikePattern(pk[index].value))),
                   pk, TABLE_CONFIG, index + 1)

\* applyPKFilters without the length check of a composite key
applyPKFilters_NoCompositeLength(QRY, pk, TABLE_CONFIG) ==
  IF ~TABLE_CONFIG.pk.isArray /\ Len(pk) # 1
  THEN Threw(HttpException(412, <<"Incorrect set of primary keys">>))
  ELSE PKLoop(QRY, pk, TABLE_CONFIG, 1)

applyPKFilters(QRY, pk, TABLE_CONFIG) ==
  IF ~TABLE_CONFIG.pk.isArray /\ Len(pk) # 1
  THEN Threw(HttpException(412, <<"Incorrect set of primary keys">>))
  ELSE IF TABLE_CONFIG.pk.isArray /\ Len(TABLE_CONFIG.pk.items) # Len(pk)
  THEN Threw(HttpException(412, <<"Incorrect set of primary keys">>))
  ELSE PKLoop(QRY, pk, TABLE_CONFIG, 1)

(* applyPKFilters applied to drawn payloads and tables *)

\* payloads carry declared column names and the undeclared name "zz"
PKValues == {JSNum(1), JSStr(<<"a">>)}

\* payloads: at most n entries with distinct keys
Injective(f) == \A i, j \in DOMAIN f : i # j => f[i] # f[j]
Payloads(keys, n) ==
  {pk \in SeqsUpTo([key : keys, value : PKValues], n) : Injective(PKKeys(pk))}

InitPK ==
  /\ fn = "applyPKFilters"
  /\ \E shape \in TableShapes :
       arg \in [pk : Payloads(ColumnNames(shape) \cup {"zz"}, MaxPK), table : {shape}]
  /\ ret = NotReturned
  /\ CtlIdle
  /\ DataIdle

CallApplyPKFilters ==
  /\ fn = "applyPKFilters" /\ ~ret.done
  /\ ret' = [done |-> TRUE, val |-> applyPKFilters(EmptyQuery, arg.pk, arg.table)]
  /\ UNCHANGED <<fn, arg, ctlVars, dataVars>>

NextPK == CallApplyPKFilters

SpecPK == InitPK /\ [][NextPK]_vars

\* the declared primary-key columns and the declared key cardinality
DeclaredPK(TABLE_CONFIG) ==
  IF TABLE_CONFIG.pk.isArray THEN Range(TABLE_CONFIG.pk.items) ELSE {TABLE_CONFIG.pk.name}
Cardinality_(TABLE_CONFIG) ==
  IF TABLE_CONFIG.pk.isArray THEN Len(TABLE_CONFIG.pk.items) ELSE 1

\* a payload that is invalid for the table
InvalidPayload(pk, TABLE_CONFIG) ==
  \/ Len(pk) # Cardinality_(TABLE_CONFIG)
  \/ \E i \in DOMAIN pk : pk[i].key \notin DeclaredPK(TABLE_CONFIG)

\* C6: applyPKFilters fails with InvalidPrimaryKey (412) whenever the number of
\* payload keys differs from the declared key cardinality or some payload key
\* is not a declared primary-key column; a payload naming exactly the declared
\* key columns does not fail.
C6_InvalidPrimaryKey ==
  (fn = "applyPKFilters" /\ ret.done) =>
    /\ InvalidPayload(arg.pk, arg.table) =>
         (ret.val.threw /\ ret.val.error.name = "HttpException"
                        /\ ret.val.error.status = 412)
    /\ Range(PKKeys(arg.pk)) = DeclaredPK(arg.table) => ~ret.val.threw

\* pk=[a,b] with the payload {a}: fails with 412
C6_Witness ==
  /\ fn = "applyPKFilters" /\ ret.done
  /\ arg.table.pk = PKArray(<<"a", "b">>)
  /\ PKKeys(arg.pk) = <<"a">>
  /\ ret.val.threw /\ ret.val.error.status = 412

----------------------------------------------------------------------------
(* Filter composer *)

\* the type test that knows int(11) only
NumericOrTemporal_IntOnly(type) == type = "int(11)"

\* FILTERS: the filter map's keys in Object.keys order, with their values
NumericOrTemporal(type) == type \in {"int(11)", "smallint(5)", "datetime"}

\* the forEach of applyQueryFilters from position index on
RECURSIVE FiltersLoop(_, _, _, _)
FiltersLoop(QRY, FILTERS, TABLE_CONFIG, index) ==
  IF index > Len(FILTERS) THEN Returned(QRY)
  ELSE
    LET key == FILTERS[index].key
        value == FILTERS[index].value
        columnsByName == getColumnsByName(TABLE_CONFIG)
        first == index = 1
        clause ==
          IF NumericOrTemporal(columnsByName[key].type)
          THEN IF first
               THEN IF value.t = "null" THEN Where("whereNull", key, "null", JSNull)
                    ELSE IF value.t = "array" THEN Where("whereIn", key, "in", value)
                    ELSE Where("where", key, "=", value)
               ELSE IF value.t = "null" THEN Where("andWhere(whereNull)", key, "null", JSNull)
                    ELSE IF value.t = "array" THEN Where("whereIn", key, "in", value)
                    ELSE Where("andWhere", key, "=", value)
          ELSE IF first
               THEN IF value.t = "null" THEN Where("whereNull", key, "null", JSNull)
                    ELSE IF value.t = "array" THEN Where("whereIn", key, "in", value)
                    ELSE Where("where", key, "like", LikePattern(value))
               ELSE IF value.t = "null" THEN Where("andWhere(whereNull)", key, "null", JSNull)
                    ELSE IF value.t = "array" THEN Where("whereIn", key, "in", value)
                    ELSE Where("andWhere", key, "like", LikePattern(value))
    IN IF key \notin DOMAIN columnsByName
       THEN Threw(TypeError(<<"Cannot read property 'type' of undefined">>))
       ELSE FiltersLoop(AddWhere(QRY, clause), FILTERS, TABLE_CONFIG, index + 1)

applyQueryFilters(QRY, filters, TABLE_CONFIG) == FiltersLoop(QRY, filters, TABLE_CONFIG, 1)

----------------------------------------------------------------------------
(* The store's evaluation of a composed query on a row *)

\* text LIKE pattern, with % standing for any run of characters
RECURSIVE LikeMatch(_, _)
LikeMatch(text, pattern) ==
  IF pattern = <<>> THEN text = <<>>
  ELSE IF Head(pattern) = "%"
  THEN LikeMatch(text, Tail(pattern)) \/ (text # <<>> /\ LikeMatch(Tail(text), pattern))
  ELSE text # <<>> /\ Head(text) = Head(pattern) /\ LikeMatch(Tail(text), Tail(pattern))

\* cell = value; a NULL cell equals nothing
SqlEquals(cell, value) ==
  /\ cell.t # "null" /\ value.t # "null"
  /\ IF cell.t = value.t THEN cell = value ELSE ToChars(cell) = ToChars(value)

\* a grouped clause where(function() {...}): its members are OR-joined likes;
\* the builder compiles a group without members to no predicate at all
GroupHolds(members, row) ==
  \/ members = <<>>
  \/ \E i \in DOMAIN members :
       LET cell == row[members[i].column]
       IN cell.t # "null" /\ LikeMatch(ToChars(cell), members[i].value.s)

\* one clause of the query on a row; every where-method of the builder is AND-joined
ClauseHolds(w, row) ==
  LET cell == row[w.column]
  IN CASE w.operator = "group" -> GroupHolds(w.value.items, row)
       [] w.operator = "null" -> cell.t = "null"
       [] w.operator = "in" -> \E i \in DOMAIN w.value.items : SqlEquals(cell, w.value.items[i])
       [] w.operator = "=" -> SqlEquals(cell, w.value)
       [] OTHER -> cell.t # "null" /\ LikeMatch(ToChars(cell), w.value.s)

Selects(QRY, row) == \A i \in DOMAIN QRY.wheres : ClauseHolds(QRY.wheres[i], row)

(* applyQueryFilters applied to drawn filter maps on the products table *)

NumberScalars == {JSNum(1), JSNum(12)}
TextScalars == {JSStr(<<"a">>), JSStr(<<"b">>)}
ScalarsOf(type) == IF type \in {"int(11)", "smallint(5)"} THEN NumberScalars ELSE TextScalars

\* the cells a column of the type can hold
CellsOf(type) ==
  IF type \in {"int(11)", "smallint(5)"}
  THEN {JSNull} \cup NumberScalars
  ELSE {JSNull, JSStr(<<"a">>), JSStr(<<"a", "b">>)}

\* the values a filter can give for a column: null, a scalar, a list of scalars
FilterValuesOf(type) ==
  {JSNull} \cup ScalarsOf(type) \cup {JSArr(l) : l \in SeqsUpTo(ScalarsOf(type), MaxList)}

FilterEntries(TABLE_CONFIG) ==
  UNION {[key : {TABLE_CONFIG.columns[i].name},
          value : FilterValuesOf(TABLE_CONFIG.columns[i].type)] : i \in DOMAIN TABLE_CONFIG.columns}

FilterMaps(TABLE_CONFIG, n) ==
  {f \in SeqsUpTo(FilterEntries(TABLE_CONFIG), n) : Injective(PKKeys(f))}

FilterTable == Shape("products", ProductsColumns, PKString("id"))

\* every row the products table can hold
FilterRows ==
  {[id |-> i, stock |-> k, created |-> c, name |-> n] :
     i \in CellsOf("int(11)"), k \in CellsOf("smallint(5)"),
     c \in CellsOf("datetime"), n \in CellsOf("varchar(255)")}

InitFilters ==
  /\ fn = "applyQueryFilters"
  /\ arg \in [filters : FilterMaps(FilterTable, MaxFilters), table : {FilterTable}]
  /\ ret = NotReturned
  /\ CtlIdle
  /\ DataIdle

CallApplyQueryFilters ==
  /\ fn = "applyQueryFilters" /\ ~ret.done
  /\ ret' = [done |-> TRUE, val |-> applyQueryFilters(EmptyQuery, arg.filters, arg.table)]
  /\ UNCHANGED <<fn, arg, ctlVars, dataVars>>

NextFilters == CallApplyQueryFilters

SpecFilters == InitFilters /\ [][NextFilters]_vars

\* text contains the characters of sub as a contiguous run
Contains(text, sub) ==
  \E i \in 1..(Len(text) + 1) :
    /\ i + Len(sub) - 1 <= Len(text)
    /\ \A k \in 1..Len(sub) : text[i + k - 1] = sub[k]

\* the declared type of a column
TypeOf(TABLE_CONFIG, name) ==
  TABLE_CONFIG.columns[CHOOSE i \in DOMAIN TABLE_CONFIG.columns :
                         TABLE_CONFIG.columns[i].name = name].type

\* the reference predicate of one filter entry, on a column of the type, on a row
EntryHolds(entry, type, row) ==
  LET cell == row[entry.key]
  IN CASE entry.value.t = "null" -> cell = JSNull
       [] entry.value.t = "array" -> cell \in Range(entry.value.items)
       [] type \in {"int(11)", "smallint(5)", "datetime"} -> cell = entry.value
       [] OTHER -> cell # JSNull /\ Contains(cell.s, entry.value.s)

----------------------------------------------------------------------------
(* Table configurations with roles and hooks *)

\* the hook name of each handler
HookOf(op) ==
  CASE op = "getTableData" -> "getTableData"
    [] op = "getDistinctTableData" -> "getDistinctTableData"
    [] op = "getTableCount" -> "getTableCount"
    [] op = "getRowData" -> "getRow"
    [] op = "insertRowData" -> "insertRow"
    [] op = "updateRowData" -> "updateRow"
    [] OTHER -> "deleteRow"

HookNames ==
  {"getTableData", "getDistinctTableData", "getTableCount", "getRow",
   "insertRow", "updateRow", "deleteRow"}

\* TABLE_CONFIG.hooks: the (hook, instance) pairs that carry a callable
NoHooks == {}
AllHooks == HookNames \X {"before", "after"}

\* TABLE_CONFIG.roles: one role list, or one role list per access type
RolesChoices ==
  { RolesArray(<<"admin">>),
    RolesArray(<<"all">>),
    RolesObject(<<"all">>, <<"editor">>, <<"admin">>) }

TableConfig(shape, roles, hooks) ==
  [name |-> shape.name, columns |-> shape.columns, pk |-> shape.pk,
   roles |-> roles, hooks |-> hooks]

TableConfigs ==
  {TableConfig(shape, roles, hooks) :
     shape \in TableShapes, roles \in RolesChoices, hooks \in {NoHooks, AllHooks}}

----------------------------------------------------------------------------
(* Shared utilities of the handlers *)

\* requirementsCheck of the utilities module: the gate with an access type
requirementsCheck(tableConfig, accessType, user, dbInstance) ==
  IF ~hasAuthorization(RolesIndex(tableConfig.roles, accessType), user)
  THEN [rejected |-> TRUE, error |-> HttpException(401, <<"Not authorized">>)]
  ELSE IF ~dbInstance
  THEN [rejected |-> TRUE, error |-> HttpException(500, <<"No database">>)]
  ELSE [rejected |-> FALSE, error |-> NoError]

\* the gate without its authorization branch
requirementsCheck_NoAuthorization(tableConfig, user, dbInstance) ==
  IF ~dbInstance
  THEN [rejected |-> TRUE, error |-> HttpException(500, <<"No database">>),
        calledNext |-> TRUE]
  ELSE [rejected |-> FALSE, error |-> NoError, calledNext |-> FALSE]

\* TableController.requirementsCheck: the gate every handler goes through
TableController_requirementsCheck(tableConfig, user, dbInstance) ==
  IF ~hasAuthorization(tableConfig.roles, user)
  THEN [rejected |-> TRUE, error |-> HttpException(401, <<"Not authorized">>),
        calledNext |-> FALSE]
  ELSE IF ~dbInstance
  THEN [rejected |-> TRUE, error |-> HttpException(500, <<"No database">>),
        calledNext |-> TRUE]
  ELSE [rejected |-> FALSE, error |-> NoError, calledNext |-> FALSE]

\* runHook invokes the callable when the table declares one for (hook, instance)
runHookInvokes(TABLE, hook, instance, databaseInstance) ==
  <<hook, instance>> \in TABLE.hooks /\ databaseInstance

\* applyQueryFiltersSearch: the filters of the request, when it has any
applyQueryFiltersSearch(DB_QUERY, reqQuery, TABLE_CONFIG) ==
  IF reqQuery.filter.present
  THEN applyQueryFilters(DB_QUERY, reqQuery.filter.entries, TABLE_CONFIG)
  ELSE Returned(DB_QUERY)

\* catchMiddleware(next, err) and nextAndReturn(next): the calls of next
catchMiddleware(calls, err) == Append(calls, err)
nextAndReturn(calls) == Append(calls, NoError)

\* addToResponse(res, target): the write of res.data
addToResponse(events) == Append(events, "res")

----------------------------------------------------------------------------
(* The promise chains of the TableController handlers, as the stages that *)
(* follow requirementsCheck                                               *)

getTableData == <<"before", "compose", "execute", "after", "res", "next">>
getDistinctTableData == <<"compose", "before", "execute", "after", "res", "next">>
getTableCount == <<"compose", "execute", "after", "res", "next">>
getRowData == <<"compose", "execute", "after", "res", "next">>
insertRowData == <<"before", "execute", "after", "res", "next">>
updateRowData == <<"before", "compose", "execute", "after", "res", "next">>
deleteRowData == <<"before", "compose", "execute", "after", "res", "next">>

Chain(op) ==
  CASE op = "getTableData" -> getTableData
    [] op = "getDistinctTableData" -> getDistinctTableData
    [] op = "getTableCount" -> getTableCount
    [] op = "getRowData" -> getRowData
    [] op = "insertRowData" -> insertRowData
    [] op = "updateRowData" -> updateRowData
    [] OTHER -> deleteRowData

ChainOps ==
  {"getTableData", "getDistinctTableData", "getTableCount", "getRowData",
   "insertRowData", "updateRowData", "deleteRowData"}

\* the stage that follows stage in the chain of op
After(op, stage) ==
  LET chain == Chain(op)
      i == CHOOSE k \in DOMAIN chain : chain[k] = stage
  IN chain[i + 1]

----------------------------------------------------------------------------
(* Requests *)

Callers == {NoUser, User({"admin"}), User({"editor"})}

\* req.query.page and req.query.limit of the list requests
PageValues == {JSUndef, JSNum(0), JSNum(2), JSStr(<<"2">>), JSStr(<<"a">>)}
LimitValues == {JSUndef, JSNum(0), JSStr(<<"0">>), JSStr(<<"1", "0">>), JSStr(<<"a">>)}

\* req.query.filter: absent, or a filter map
NoFilter == [present |-> FALSE, entries |-> <<>>]
Filter(entries) == [present |-> TRUE, entries |-> entries]
FiltersFor(TABLE_CONFIG) ==
  { NoFilter,
    Filter(<<[key |-> TABLE_CONFIG.columns[1].name, value |-> JSNull]>>),
    Filter(<<[key |-> "zz", value |-> JSNull]>>) }

\* req.query.order: the empty list, and two texts that are not JSON
OrderValues == {JSStr(<<"[", "]">>), JSStr(<<"[">>), JSStr(<<"a">>), JSStr(<<"[", "1", ",", "]">>)}

\* req.body.pk of the requests by primary key: distinct keys, each with the value 1
KeyLists(keys, n) == {ks \in SeqsUpTo(keys, n) : Injective(ks)}
RequestPayloads(TABLE_CONFIG) ==
  {[i \in DOMAIN ks |-> [key |-> ks[i], value |-> JSNum(1)]] :
     ks \in KeyLists(ColumnNames(TABLE_CONFIG) \cup {"zz"}, MaxPK)}

Request(op, table, user, db, pk, hasData, page, limit, filter) ==
  [op |-> op, table |-> table, user |-> user, db |-> db, pk |-> pk,
   hasData |-> hasData, page |-> page, limit |-> limit, filter |-> filter,
   order |-> JSUndef]

Ops == {"getTableConfig", "getTableData", "getDistinctTableData", "getTableCount",
        "getRowData", "insertRowData", "updateRowData", "deleteRowData"}

\* the requests for one handler, table, caller and database state
RequestsOf(op, t, u, db) ==
  CASE op = "getTableConfig" ->
         {Request(op, t, u, db, <<>>, FALSE, JSUndef, JSUndef, NoFilter)}
    [] op = "insertRowData" ->
         {Request(op, t, u, db, <<>>, TRUE, JSUndef, JSUndef, NoFilter)}
    [] op = "getTableData" ->
         {Request(op, t, u, db, <<>>, FALSE, page, limit, f) :
            page \in PageValues, limit \in LimitValues, f \in FiltersFor(t)}
         \cup {[Request(op, t, u, db, <<>>, FALSE, JSUndef, JSUndef, f) EXCEPT !.order = o] :
                 f \in FiltersFor(t), o \in OrderValues}
    [] op \in {"getDistinctTableData", "getTableCount"} ->
         {Request(op, t, u, db, <<>>, FALSE, JSUndef, JSUndef, f) : f \in FiltersFor(t)}
    [] op \in {"getRowData", "deleteRowData"} ->
         {Request(op, t, u, db, pk, FALSE, JSUndef, JSUndef, NoFilter) :
            pk \in RequestPayloads(t)}
    [] OTHER ->
         {Request(op, t, u, db, pk, hasData, JSUndef, JSUndef, NoFilter) :
            pk \in RequestPayloads(t), hasData \in BOOLEAN}

\* what a hook callable or the store may answer
HookError == HttpException(403, <<"hook">>)
StoreError == [name |-> "Error", status |-> 0, message |-> <<"store">>]

----------------------------------------------------------------------------
(* The handlers *)

Init ==
  /\ PureIdle
  /\ CtlIdle
  /\ DataIdle

\* the transport layer hands a request to its handler
Receive ==
  /\ pc = "idle"
  /\ \E op \in Ops, t \in TableConfigs, u \in Callers, db \in BOOLEAN :
       req' \in RequestsOf(op, t, u, db)
  /\ pc' = "called"
  /\ authz' = "none" /\ trace' = <<>> /\ nextArgs' = <<>>
  /\ rejected' = NoRejection /\ QUERY' = EmptyQuery
  /\ UNCHANGED <<pureVars, dataVars>>

\* getTableConfig: synchronous, no store access
GetTableConfig ==
  /\ pc = "called" /\ req.op = "getTableConfig"
  /\ IF ~hasAuthorization(req.table.roles, req.user)
     THEN /\ authz' = "denied"
          /\ nextArgs' = catchMiddleware(nextArgs, HttpException(401, <<"Not authorized">>))
          /\ trace' = trace
     ELSE /\ authz' = "granted"
          /\ trace' = addToResponse(trace)
          /\ nextArgs' = nextAndReturn(nextArgs)
  /\ pc' = "done"
  /\ UNCHANGED <<req, rejected, QUERY, pureVars, dataVars>>

\* the synchronous part of the other handlers, up to requirementsCheck
CallHandler ==
  /\ pc = "called" /\ req.op \in ChainOps
  /\ IF req.op = "updateRowData" /\ ~req.hasData
     THEN /\ nextArgs' = Append(nextArgs, HttpException(500, <<"Missing data object">>))
          /\ pc' = "done"
          /\ UNCHANGED <<authz, rejected>>
     ELSE LET check == TableController_requirementsCheck(req.table, req.user, req.db)
          IN /\ authz' = IF hasAuthorization(req.table.roles, req.user)
                         THEN "granted" ELSE "denied"
             /\ nextArgs' = IF check.calledNext
                            THEN catchMiddleware(nextArgs, check.error) ELSE nextArgs
             /\ rejected' = check.error
             /\ pc' = IF check.rejected THEN "catch" ELSE Chain(req.op)[1]
  /\ UNCHANGED <<req, trace, QUERY, pureVars, dataVars>>

\* runHook(..., 'before', ...): resolves, or the callable rejects
BeforeHook ==
  /\ pc = "before"
  /\ IF runHookInvokes(req.table, HookOf(req.op), "before", req.db)
     THEN /\ trace' = Append(trace, "hook.before")
          /\ \/ pc' = After(req.op, "before") /\ rejected' = rejected
             \/ pc' = "catch" /\ rejected' = HookError
     ELSE /\ trace' = trace
          /\ pc' = After(req.op, "before") /\ rejected' = rejected
  /\ UNCHANGED <<req, authz, nextArgs, QUERY, pureVars, dataVars>>

\* JSON.parse on texts of digits 1, brackets and commas: the position after the
\* value that starts at position i, or 0 when no value starts there
RECURSIVE JSONValue(_, _)
JSONValue(text, i) ==
  IF i > Len(text) THEN 0
  ELSE IF text[i] = "1"
  THEN IF i < Len(text) /\ text[i + 1] = "1" THEN JSONValue(text, i + 1) ELSE i + 1
  ELSE IF text[i] # "[" THEN 0
  ELSE IF i < Len(text) /\ text[i + 1] = "]" THEN i + 2
  ELSE LET RECURSIVE Items(_)
           Items(j) ==
             LET e == JSONValue(text, j)
             IN IF e = 0 \/ e > Len(text) THEN 0
                ELSE IF text[e] = "]" THEN e + 1
                ELSE IF text[e] = "," THEN Items(e + 1)
                ELSE 0
       IN Items(i + 1)

\* JSON.parse(text) throws a SyntaxError unless the text is one JSON value
JSONParseThrows(text) == JSONValue(text, 1) # Len(text) + 1

SyntaxError(message) == [name |-> "SyntaxError", status |-> 0, message |-> message]

\* if (ORDER) { ... QUERY.orderBy(...) } with a list as the order
getTableData_order(QRY, ORDER) ==
  IF ~Truthy(ORDER) THEN Returned(QRY)
  ELSE IF JSONParseThrows(ORDER.s)
  THEN Threw(SyntaxError(<<"Unexpected token in JSON">>))
  ELSE Returned([QRY EXCEPT !.orderBy = ORDER.s])

\* the query the handler composes, or the error its composition throws
Compose(r) ==
  LET base == [EmptyQuery EXCEPT !.table = r.table.name]
  IN CASE r.op = "getTableData" ->
            LET filtered == applyQueryFiltersSearch(base, r, r.table)
                ordered == IF filtered.threw THEN filtered
                           ELSE getTableData_order(filtered.query, r.order)
            IN IF ordered.threw THEN ordered
               ELSE Returned(paginate(ordered.query, r.page, r.limit))
       [] r.op \in {"getDistinctTableData", "getTableCount"} ->
            applyQueryFiltersSearch(base, r, r.table)
       [] OTHER -> applyPKFilters(base, r.pk, r.table)

ComposeQuery ==
  /\ pc = "compose"
  /\ LET built == Compose(req)
     IN IF built.threw
        THEN pc' = "catch" /\ rejected' = built.error /\ QUERY' = QUERY
        ELSE pc' = After(req.op, "compose") /\ rejected' = rejected /\ QUERY' = built.query
  /\ UNCHANGED <<req, authz, trace, nextArgs, pureVars, dataVars>>

\* the store runs the query: it answers, or it fails
ExecuteQuery ==
  /\ pc = "execute"
  /\ trace' = Append(trace, "query")
  /\ \/ pc' = After(req.op, "execute") /\ rejected' = rejected
     \/ pc' = "catch" /\ rejected' = StoreError
  /\ UNCHANGED <<req, authz, nextArgs, QUERY, pureVars, dataVars>>

\* runHook(..., 'after', ...): resolves, or the callable rejects
AfterHook ==
  /\ pc = "after"
  /\ IF runHookInvokes(req.table, HookOf(req.op), "after", req.db)
     THEN /\ trace' = Append(trace, "hook.after")
          /\ \/ pc' = After(req.op, "after") /\ rejected' = rejected
             \/ pc' = "catch" /\ rejected' = HookError
     ELSE /\ trace' = trace
          /\ pc' = After(req.op, "after") /\ rejected' = rejected
  /\ UNCHANGED <<req, authz, nextArgs, QUERY, pureVars, dataVars>>

\* .then(addToResponse(res, target))
AddToResponse ==
  /\ pc = "res"
  /\ trace' = addToResponse(trace)
  /\ pc' = After(req.op, "res")
  /\ UNCHANGED <<req, authz, nextArgs, rejected, QUERY, pureVars, dataVars>>

\* .then(nextAndReturn(next))
NextAndReturn ==
  /\ pc = "next"
  /\ nextArgs' = nextAndReturn(nextArgs)
  /\ pc' = "done"
  /\ UNCHANGED <<req, authz, trace, rejected, QUERY, pureVars, dataVars>>

\* the error a handler's .catch passes to next
Caught(op, err) ==
  IF op = "getDistinctTableData"
  THEN HttpException(500, err.message)
  ELSE err

\* .catch((err) => catchMiddleware(next, ...))
Catch ==
  /\ pc = "catch"
  /\ nextArgs' = catchMiddleware(nextArgs, Caught(req.op, rejected))
  /\ pc' = "done"
  /\ UNCHANGED <<req, authz, trace, rejected, QUERY, pureVars, dataVars>>

\* the handler has called next: the request leaves the controller
Finish ==
  /\ pc = "done"
  /\ pc' = "idle" /\ req' = NoRequest
  /\ authz' = "none" /\ trace' = <<>> /\ nextArgs' = <<>>
  /\ rejected' = NoRejection /\ QUERY' = EmptyQuery
  /\ hookResult' = NoHookResult /\ results' = NoResults /\ tasks' = <<>>
  /\ UNCHANGED <<pureVars, cache>>

Next ==
  \/ Receive
  \/ GetTableConfig
  \/ CallHandler
  \/ BeforeHook
  \/ ComposeQuery
  \/ ExecuteQuery
  \/ AfterHook
  \/ AddToResponse
  \/ NextAndReturn
  \/ Catch
  \/ Finish

Spec == Init /\ [][Next]_vars

----------------------------------------------------------------------------
(* Properties of the handlers *)

Events == Range(trace)
StoreOrHook == {"query", "hook.before", "hook.after"}

\* the request has passed the gate: it is at a stage of its chain, or was
PastGate ==
  /\ req.op \in ChainOps
  /\ \/ pc \in Range(Chain(req.op))
     \/ Events # {}

\* C1: in every table operation no store query is issued and no hook is invoked
\* unless the authorization check of the request has returned true; a denied
\* request reaches neither the store nor any hook.
C1_NoStoreNoHookUnlessAuthorized ==
  /\ (Events \cap StoreOrHook # {}) => authz = "granted"
  /\ authz = "denied" => (pc \in {"catch", "done"} /\ Events = {})

\* a denied request on a table that declares hooks has ended with no query and
\* no hook call
C1_Witness ==
  /\ pc = "done" /\ authz = "denied" /\ req.op = "deleteRowData"
  /\ req.table.hooks = AllHooks /\ req.db
  /\ Events = {}

\* the access type of each operation: write for insert and update, delete for
\* delete, read for the others
AccessType(op) ==
  CASE op \in {"insertRowData", "updateRowData"} -> "write"
    [] op = "deleteRowData" -> "delete"
    [] OTHER -> "read"

\* the role list the table declares for the access type of an operation
PerActionAuthorized(r) ==
  IF r.table.roles.kind = "object"
  THEN ~requirementsCheck(r.table, AccessType(r.op), r.user, TRUE).rejected
  ELSE hasAuthorization(r.table.roles, r.user)

\* C3: each table operation is authorized against the role list of its own
\* action: delete proceeds only if the caller is authorized by the delete role
\* list, insert and update only by the write list, the reads only by the read list.
C3_PerActionAuthorization ==
  PastGate => PerActionAuthorized(req)

\* C4: for every table operation, when the caller is not authorized the error
\* delivered to the caller is the Unauthorized error with status 401, and it is
\* produced before any query executes.
C4_Unauthorized401 ==
  (pc = "done" /\ authz = "denied") =>
    /\ nextArgs = <<HttpException(401, <<"Not authorized">>)>>
    /\ "query" \notin Events

\* C7: in getRow, update and delete, when the primary-key payload is invalid
\* for the table, the operation fails before any store query executes and
\* before any hook is invoked.
C7_InvalidPKBeforeQueryAndHooks ==
  (/\ req.op \in {"getRowData", "updateRowData", "deleteRowData"}
   /\ InvalidPayload(req.pk, req.table)) =>
    Events \cap StoreOrHook = {}

\* a page or limit that is a non-numeric string
NonNumeric(v) == v.t = "string" /\ v.s # <<>> /\ ~IsNumericString(v.s)

\* the list request got as far as paginate: the gate let it through, its
\* filters composed and no hook rejected
ReachedPaginate ==
  /\ ~TableController_requirementsCheck(req.table, req.user, req.db).rejected
  /\ ~applyQueryFiltersSearch(EmptyQuery, req, req.table).threw
  /\ rejected # HookError

\* C10: when page or limit is a non-numeric string, the list operation fails
\* with the InvalidPagination client error (400); it neither falls back to a
\* default nor runs the query without pagination.
C10_InvalidPaginationRejected ==
  (/\ req.op = "getTableData"
   /\ NonNumeric(req.page) \/ NonNumeric(req.limit)) =>
    /\ "query" \notin Events
    /\ (pc = "done" /\ ReachedPaginate) =>
         (nextArgs # <<>> /\ nextArgs[Len(nextArgs)].status = 400)


----------------------------------------------------------------------------
(* The store: the rows a table holds and the answer to a composed query *)

DataTable == Shape("products", ProductsColumns, PKString("id"))

\* the rows of the products table, in the order the store returns them
ProductsRows ==
  << [id |-> JSNum(1), stock |-> JSNum(1), created |-> JSNull, name |-> JSStr(<<"a">>)],
     [id |-> JSNum(2), stock |-> JSNum(1), created |-> JSNull, name |-> JSStr(<<"a", "b">>)],
     [id |-> JSNum(12), stock |-> JSNum(12), created |-> JSNull, name |-> JSStr(<<"a">>)] >>

\* one result row: its columns in the order of the select list
Project(row, columns) ==
  [i \in DOMAIN columns |-> [key |-> columns[i], value |-> row[columns[i]]]]

\* SELECT DISTINCT: the first occurrence of every entry
RECURSIVE Dedupe(_)
Dedupe(entries) ==
  IF entries = <<>> THEN <<>>
  ELSE LET front == Dedupe(SubSeq(entries, 1, Len(entries) - 1))
           last == entries[Len(entries)]
       IN IF last \in Range(front) THEN front ELSE Append(front, last)

\* OFFSET and LIMIT of the query, when paginate set them
Window(QRY, entries) ==
  IF ~QRY.limit.set THEN entries
  ELSE LET to == QRY.offset.n + QRY.limit.n
       IN SubSeq(entries, QRY.offset.n + 1, IF to < Len(entries) THEN to ELSE Len(entries))

\* the answer of the store to the query: an empty select list reads every column
Answer(QRY, TABLE_CONFIG, rows) ==
  LET selected == SelectSeq(rows, LAMBDA row : Selects(QRY, row))
      all == [i \in DOMAIN TABLE_CONFIG.columns |-> TABLE_CONFIG.columns[i].name]
      columns == IF QRY.distinct.columns = <<>> THEN all ELSE QRY.distinct.columns
      entries == [i \in DOMAIN selected |-> Project(selected[i], columns)]
  IN Window(QRY, IF QRY.distinct.set THEN Dedupe(entries) ELSE entries)

----------------------------------------------------------------------------
(* The distinct-value cache and the column handling of getDistinctTableData *)

\* the columns a cache key "distinct_" + column can name
CacheKeys == {"id", "stock", "created", "name"}

NoEntry == [has |-> FALSE, value |-> <<>>]
EmptyCache == [k \in CacheKeys |-> NoEntry]

\* metle.hasItem, metle.getItem and metle.setItem on the key "distinct_" + column
hasItem(mem, column) == mem[column].has
getItem(mem, column) == mem[column].value
setItem(mem, column, value) == [mem EXCEPT ![column] = [has |-> TRUE, value |-> value]]

\* DistinctColumns that asks the store for every column, cached or not
DistinctColumns_NoCache(columns, mem) ==
  [toRequest |-> columns, toAdd |-> <<>>]

\* req.query.columns.forEach: cached columns go to toAdd, the others to toRequest
DistinctColumns(columns, mem) ==
  LET hit == SelectSeq(columns, LAMBDA c : hasItem(mem, c))
  IN [toRequest |-> SelectSeq(columns, LAMBDA c : ~hasItem(mem, c)),
      toAdd |-> [i \in DOMAIN hit |-> [name |-> hit[i], value |-> getItem(mem, hit[i])]]]

\* queryResults.reduce: under the first key of every entry, the values of that key
RECURSIVE ReduceEntries(_, _)
ReduceEntries(result, entries) ==
  IF entries = <<>> THEN result
  ELSE LET key == Head(entries)[1].key
           value == Head(entries)[1].value
       IN ReduceEntries(
            [result EXCEPT ![key] = [has |-> TRUE, value |-> Append(@.value, value)]],
            Tail(entries))

\* Object.keys(results).forEach(metle.setItem): every key of the reduced results
RECURSIVE StoreItems(_, _, _)
StoreItems(mem, reduced, keys) ==
  IF keys = {} THEN mem
  ELSE LET k == CHOOSE x \in keys : TRUE
       IN StoreItems(IF reduced[k].has THEN setItem(mem, k, reduced[k].value) ELSE mem,
                     reduced, keys \ {k})

\* columnsToAdd.forEach: the cached lists written over the reduced results
RECURSIVE AddColumns(_, _)
AddColumns(reduced, columnsToAdd) ==
  IF columnsToAdd = <<>> THEN reduced
  ELSE AddColumns(
         [reduced EXCEPT ![Head(columnsToAdd).name] =
            [has |-> TRUE, value |-> Head(columnsToAdd).value]],
         Tail(columnsToAdd))

----------------------------------------------------------------------------
(* The filter a before hook returns *)

HookResult(filter) == [t |-> "object", filter |-> filter]

\* Object.keys(hookResult.filter).forEach: whereIn for the list-valued entries
RECURSIVE HookFilterLoop(_, _, _)
HookFilterLoop(QRY, entries, index) ==
  IF index > Len(entries) THEN QRY
  ELSE LET column == entries[index].key
           value == entries[index].value
       IN HookFilterLoop(
            IF value.t = "array" THEN AddWhere(QRY, Where("whereIn", column, "in", value))
            ELSE QRY,
            entries, index + 1)

\* getTableData with the filter of its before hook left out of the query
getTableData_hookFilter_Ignored(QRY, hook) == QRY

\* if (hookResult) { if (hookResult.filter) {...} } of getTableData
getTableData_hookFilter(QRY, hook) ==
  IF hook.t # "undefined" /\ hook.filter.present
  THEN HookFilterLoop(QRY, hook.filter.entries, 1)
  ELSE QRY

\* the same block of getDistinctTableData
getDistinctTableData_hookFilter(QRY, hook) ==
  IF hook.t # "undefined" /\ hook.filter.present
  THEN HookFilterLoop(QRY, hook.filter.entries, 1)
  ELSE QRY


----------------------------------------------------------------------------
(* getTableData and getDistinctTableData on the store, with the cache kept *)
(* from one request to the next                                            *)

\* the most columns one distinct request names
MaxColumns == 2

DataOps == {"getTableData", "getDistinctTableData"}

DataTables ==
  {TableConfig(DataTable, RolesArray(<<"all">>), hooks) : hooks \in {NoHooks, AllHooks}}

\* req.query.filter, and req.query.page with req.query.limit, of these requests
DataFilters == {NoFilter, Filter(<<[key |-> "stock", value |-> JSNum(12)]>>)}
DataPages == {<<JSUndef, JSUndef>>, <<JSNum(1), JSNum(1)>>, <<JSUndef, JSNum(2)>>}

\* req.query.columns of the distinct requests
DataColumns == KeyLists({"id", "stock", "name"}, MaxColumns) \ {<<>>}

DataRequest(op, table, columns, page, limit, filter) ==
  [op |-> op, table |-> table, user |-> NoUser, db |-> TRUE, pk |-> <<>>,
   hasData |-> FALSE, page |-> page, limit |-> limit, filter |-> filter,
   order |-> JSUndef, columns |-> columns]

DataRequestsOf(op, t) ==
  IF op = "getTableData"
  THEN {DataRequest(op, t, <<>>, p[1], p[2], f) : p \in DataPages, f \in DataFilters}
  ELSE {DataRequest(op, t, c, JSUndef, JSUndef, f) : c \in DataColumns, f \in DataFilters}

\* what the before hook of a table may resolve to
HookResults ==
  { NoHookResult,
    HookResult(NoFilter),
    HookResult(Filter(<<[key |-> "stock", value |-> JSArr(<<JSNum(1)>>)]>>)),
    HookResult(Filter(<<[key |-> "stock", value |-> JSNum(12)]>>)),
    HookResult(Filter(<<[key |-> "name", value |-> JSStr(<<"b">>)],
                        [key |-> "id", value |-> JSArr(<<JSNum(1), JSNum(12)>>)]>>)) }

InitData ==
  /\ PureIdle
  /\ CtlIdle
  /\ cache = EmptyCache /\ hookResult = NoHookResult /\ results = NoResults
  /\ tasks = <<>>

DataReceive ==
  /\ pc = "idle"
  /\ \E op \in DataOps, t \in DataTables : req' \in DataRequestsOf(op, t)
  /\ pc' = "called"
  /\ authz' = "none" /\ trace' = <<>> /\ nextArgs' = <<>>
  /\ rejected' = NoRejection /\ QUERY' = EmptyQuery
  /\ UNCHANGED <<pureVars, dataVars>>

\* runHook(..., 'before', ...) and, in getDistinctTableData, the .then on it
DataBeforeHook ==
  /\ pc = "before"
  /\ IF runHookInvokes(req.table, HookOf(req.op), "before", req.db)
     THEN /\ trace' = Append(trace, "hook.before")
          /\ \/ /\ hookResult' \in HookResults
                /\ QUERY' = IF req.op = "getDistinctTableData"
                            THEN getDistinctTableData_hookFilter(QUERY, hookResult')
                            ELSE QUERY
                /\ pc' = After(req.op, "before") /\ rejected' = rejected
             \/ /\ pc' = "catch" /\ rejected' = HookError
                /\ UNCHANGED <<hookResult, QUERY>>
     ELSE /\ trace' = trace /\ hookResult' = NoHookResult /\ QUERY' = QUERY
          /\ pc' = After(req.op, "before") /\ rejected' = rejected
  /\ UNCHANGED <<req, authz, nextArgs, pureVars, cache, results, tasks>>

\* the query getTableData composes once its before hook has resolved
getTableData_compose(r, hook) ==
  LET built == Compose(r)
  IN IF built.threw THEN built
     ELSE Returned(getTableData_hookFilter(built.query, hook))

\* the query getDistinctTableData composes: distinct over the columns not cached
getDistinctTableData_compose(r, mem) ==
  LET built == Compose(r)
      toRequest == DistinctColumns(r.columns, mem).toRequest
  IN IF built.threw THEN built
     ELSE Returned([built.query EXCEPT !.distinct = [set |-> TRUE, columns |-> toRequest]])

DataComposeQuery ==
  /\ pc = "compose"
  /\ LET distinct == req.op = "getDistinctTableData"
         built == IF distinct THEN getDistinctTableData_compose(req, cache)
                  ELSE getTableData_compose(req, hookResult)
     IN IF built.threw
        THEN pc' = "catch" /\ rejected' = built.error /\ UNCHANGED <<QUERY, results>>
        ELSE /\ pc' = After(req.op, "compose") /\ rejected' = rejected
             /\ QUERY' = built.query
             /\ results' = IF distinct
                           THEN [results EXCEPT
                                   !.toAdd = DistinctColumns(req.columns, cache).toAdd]
                           ELSE results
  /\ UNCHANGED <<req, authz, trace, nextArgs, pureVars, cache, hookResult, tasks>>

\* a second table with the column names of products and rows of its own
AccountsTable == Shape("accounts", ProductsColumns, PKString("id"))
AccountsRows ==
  << [id |-> JSNum(7), stock |-> JSNum(1), created |-> JSNull, name |-> JSStr(<<"b">>)],
     [id |-> JSNum(1), stock |-> JSNum(12), created |-> JSNull, name |-> JSStr(<<"b", "b">>)] >>

\* the rows the store holds for DB(TABLE_NAME)
DataRows(TABLE_NAME) == IF TABLE_NAME = "accounts" THEN AccountsRows ELSE ProductsRows

\* Promise.all([..., QUERY, ...]): the store runs the query and answers or fails
DataExecuteQuery ==
  /\ pc = "execute"
  /\ trace' = Append(trace, "query")
  /\ \/ /\ results' = [results EXCEPT
                         !.rows = Answer(QUERY, req.table, DataRows(req.table.name))]
        /\ pc' = After(req.op, "execute") /\ rejected' = rejected
     \/ pc' = "catch" /\ rejected' = StoreError /\ results' = results
  /\ UNCHANGED <<req, authz, nextArgs, QUERY, pureVars, cache, hookResult, tasks>>

\* the .then that ends in runHook(..., 'after', ...); in getDistinctTableData it
\* first reduces the answer, stores it in the cache and adds the cached columns
DataAfterHook ==
  /\ pc = "after"
  /\ LET distinct == req.op = "getDistinctTableData"
         reduced == ReduceEntries(EmptyCache, results.rows)
     IN /\ cache' = IF distinct THEN StoreItems(cache, reduced, CacheKeys) ELSE cache
        /\ results' = IF distinct
                      THEN [results EXCEPT !.columns = AddColumns(reduced, results.toAdd)]
                      ELSE [results EXCEPT !.data = results.rows]
  /\ IF runHookInvokes(req.table, HookOf(req.op), "after", req.db)
     THEN /\ trace' = Append(trace, "hook.after")
          /\ \/ pc' = After(req.op, "after") /\ rejected' = rejected
             \/ pc' = "catch" /\ rejected' = HookError
     ELSE /\ trace' = trace
          /\ pc' = After(req.op, "after") /\ rejected' = rejected
  /\ UNCHANGED <<req, authz, nextArgs, QUERY, pureVars, hookResult, tasks>>

NextData ==
  \/ DataReceive
  \/ CallHandler
  \/ DataBeforeHook
  \/ DataComposeQuery
  \/ DataExecuteQuery
  \/ DataAfterHook
  \/ AddToResponse
  \/ NextAndReturn
  \/ Catch
  \/ Finish

SpecData == InitData /\ [][NextData]_vars

----------------------------------------------------------------------------
(* Properties of the distinct-value cache *)

\* the distinct request names one column and found it in the cache
OnlyCachedColumn ==
  /\ req.op = "getDistinctTableData" /\ Len(req.columns) = 1
  /\ results.toAdd # <<>>

\* C11: after a getDistinctTableData call for a column has stored its values,
\* a later call that asks only for that column returns the cached list and
\* issues no store query.
C11_CachedColumnNoQuery ==
  OnlyCachedColumn =>
    /\ "query" \notin Events
    /\ (pc = "done" /\ nextArgs = <<NoError>>) =>
         results.columns[req.columns[1]] =
           [has |-> TRUE, value |-> results.toAdd[1].value]

\* C12: once the cache holds an entry for the key "distinct_" + column, every
\* later state holds an entry for that key with the same value; no sequence of
\* table operations removes or replaces a cache entry.
C12_CacheEntriesNeverChange ==
  [][\A k \in CacheKeys : cache[k].has => cache'[k] = cache[k]]_vars

----------------------------------------------------------------------------
(* Properties of the hook filter *)

\* the list-valued entries of the filter map the before hook resolved to
ListEntries(hook) == SelectSeq(hook.filter.entries, LAMBDA e : e.value.t = "array")

\* C13: when the before hook of a list or distinct operation returns a filter
\* map, the final query selects exactly the rows that the query of the
\* request selects and that hold, for every list-valued entry, one of its
\* values in its column, whether or not the caller filtered that column;
\* scalar-valued entries change nothing, and pagination stays as composed.
C13_HookFilterListsOnly ==
  (pc = "execute" /\ req.op \in DataOps) =>
    LET base == Compose(req).query
        lists == ListEntries(hookResult)
    IN /\ \A row \in FilterRows :
            Selects(QUERY, row) <=>
              /\ Selects(base, row)
              /\ \A i \in DOMAIN lists : row[lists[i].key] \in Range(lists[i].value.items)
       /\ QUERY.offset = base.offset /\ QUERY.limit = base.limit

\* a list request without a filter whose before hook returned a scalar entry
\* and a list entry: the final query keeps some rows of the table and drops others
C13_Witness ==
  /\ pc = "execute" /\ req.op = "getTableData" /\ req.filter = NoFilter
  /\ Len(hookResult.filter.entries) = 2 /\ Len(ListEntries(hookResult)) = 1
  /\ \E i, j \in DOMAIN ProductsRows :
       Selects(QUERY, ProductsRows[i]) /\ ~Selects(QUERY, ProductsRows[j])

----------------------------------------------------------------------------
(* runHook applied to drawn hook declarations and data *)

\* the outcome of runHook: the callable is called with the data, or the
\* promise resolves to value, or the evaluation of results.length throws
Invoked(data) == [invoked |-> TRUE, threw |-> FALSE, value |-> data]
Resolved(value) == [invoked |-> FALSE, threw |-> FALSE, value |-> value]
LengthThrew == [invoked |-> FALSE, threw |-> TRUE, value |-> JSUndef]

\* runHook that resolves to the data for every hook name
runHook_NoLength(TABLE, hook, instance, databaseTnstance, data) ==
  IF runHookInvokes(TABLE, hook, instance, databaseTnstance)
  THEN Invoked(data)
  ELSE Resolved(data)

runHook(TABLE, hook, instance, databaseTnstance, data) ==
  IF runHookInvokes(TABLE, hook, instance, databaseTnstance)
  THEN Invoked(data)
  ELSE IF hook = "getTableCount"
  THEN IF data.t = "array" THEN Resolved(JSNum(Len(data.items)))
       ELSE IF data.t = "string" THEN Resolved(JSNum(Len(data.s)))
       ELSE IF data.t \in {"undefined", "null"} THEN LengthThrew
       ELSE Resolved(JSUndef)
  ELSE Resolved(data)

\* the hook declarations, hook names and data the function is applied to
RunHookPairs == {"getTableCount", "getTableData", "getRow"} \X {"before", "after"}
RunHookData == {JSUndef} \cup {JSArr(l) : l \in SeqsUpTo({JSNum(1)}, MaxList)}

InitHook ==
  /\ fn = "runHook"
  /\ arg \in [table : {TableConfig(DataTable, RolesArray(<<"all">>), hooks) :
                         hooks \in SUBSET RunHookPairs},
              hook : {"getTableCount", "getTableData", "getRow"},
              instance : {"before", "after"},
              db : BOOLEAN,
              results : RunHookData]
  /\ ret = NotReturned
  /\ CtlIdle
  /\ DataIdle

CallRunHook ==
  /\ fn = "runHook" /\ ~ret.done
  /\ ret' = [done |-> TRUE,
             val |-> runHook(arg.table, arg.hook, arg.instance, arg.db, arg.results)]
  /\ UNCHANGED <<fn, arg, ctlVars, dataVars>>

NextHook == CallRunHook

SpecHook == InitHook /\ [][NextHook]_vars

\* C14: when no hook is declared for (operation, phase), runHook resolves to
\* the data it was given, unchanged, for every operation except the count
\* operation, for which it resolves to the length of the data; the callable
\* is invoked only when one is declared for that exact operation and phase.
C14_RunHookWithoutHook ==
  (/\ fn = "runHook" /\ ret.done
   /\ arg.hook = "getTableCount" => arg.results.t = "array") =>
    /\ ret.val.invoked => <<arg.hook, arg.instance>> \in arg.table.hooks
    /\ <<arg.hook, arg.instance>> \notin arg.table.hooks =>
         /\ ~ret.val.invoked /\ ~ret.val.threw
         /\ ret.val.value = IF arg.hook = "getTableCount"
                            THEN JSNum(Len(arg.results.items))
                            ELSE arg.results

\* the count hook is declared for the other phase only: the callable is not
\* invoked and the two rows given resolve to 2
C14_Witness ==
  /\ fn = "runHook" /\ ret.done /\ arg.db
  /\ arg.hook = "getTableCount" /\ arg.instance = "after"
  /\ <<"getTableCount", "before">> \in arg.table.hooks
  /\ <<"getTableCount", "after">> \notin arg.table.hooks
  /\ Len(arg.results.items) = 2
  /\ ret.val = Resolved(JSNum(2))

----------------------------------------------------------------------------
(* Properties of the hooks in the handlers *)

\* C15: in every table operation, when a before or after hook rejects or
\* throws, the operation is aborted (no later stage runs, nothing is written
\* to the response) and the error delivered to the caller is the hook's own
\* error, with its status and message unchanged.
C15_HookErrorUnchanged ==
  (pc = "done" /\ rejected = HookError) =>
    /\ trace[Len(trace)] \in {"hook.before", "hook.after"}
    /\ "res" \notin Events
    /\ nextArgs = <<HookError>>

\* the positions of an event in the trace of the request
Positions(e) == {i \in DOMAIN trace : trace[i] = e}

\* C16: for every table operation (list, distinct, count, getRow, insert,
\* update, delete) on a table that declares hooks for it, the before hook is
\* invoked exactly once, after authorization succeeds and before the store
\* query executes, and the after hook exactly once, after the query and
\* before the result is written to the response.
C16_HooksOnceInOrder ==
  (/\ pc = "done" /\ req.op \in ChainOps /\ req.table.hooks = AllHooks
   /\ nextArgs = <<NoError>>) =>
    /\ authz = "granted"
    /\ \E b, a \in DOMAIN trace :
         /\ Positions("hook.before") = {b} /\ Positions("hook.after") = {a}
         /\ \A q \in Positions("query") : b < q /\ q < a
         /\ \A r \in Positions("res") : a < r

----------------------------------------------------------------------------
(* The related tables of products, and the relation queries of getRowData *)

ProductsTagsColumns == <<Column("product_id", "int(11)"), Column("tag_id", "varchar(255)")>>
ProductsShopsColumns == <<Column("product_id", "int(11)"), Column("shop_id", "int(11)")>>
ShopsColumns == <<Column("sid", "int(11)"), Column("city", "varchar(255)")>>

\* the columns of every table of the store
StoreShape(table) ==
  CASE table = "products" -> DataTable
    [] table = "orders" -> Shape("orders", OrdersColumns, PKArray(<<"a", "b">>))
    [] table = "tags" -> Shape("tags", TagsColumns, PKArray(<<"code">>))
    [] table = "shops" -> Shape("shops", ShopsColumns, PKString("sid"))
    [] table = "products_tags" ->
         Shape("products_tags", ProductsTagsColumns, PKArray(<<"product_id", "tag_id">>))
    [] OTHER ->
         Shape("products_shops", ProductsShopsColumns, PKArray(<<"product_id", "shop_id">>))

\* the rows of every table of the store, in the order the store returns them
StoreRows(table) ==
  CASE table = "products" -> ProductsRows
    [] table = "orders" ->
         << [a |-> JSNum(1), b |-> JSStr(<<"a">>), c |-> JSStr(<<"a">>)],
            [a |-> JSNum(1), b |-> JSStr(<<"b">>), c |-> JSNull],
            [a |-> JSNum(12), b |-> JSStr(<<"a">>), c |-> JSStr(<<"b">>)] >>
    [] table = "tags" ->
         << [code |-> JSStr(<<"a">>), label |-> JSStr(<<"a", "a">>)],
            [code |-> JSStr(<<"b">>), label |-> JSStr(<<"b", "b">>)],
            [code |-> JSStr(<<"a", "b">>), label |-> JSNull] >>
    [] table = "shops" ->
         << [sid |-> JSNum(1), city |-> JSStr(<<"a">>)],
            [sid |-> JSNum(2), city |-> JSStr(<<"b">>)] >>
    [] table = "products_tags" ->
         << [product_id |-> JSNum(1), tag_id |-> JSStr(<<"a">>)],
            [product_id |-> JSNum(1), tag_id |-> JSStr(<<"b">>)],
            [product_id |-> JSNum(12), tag_id |-> JSStr(<<"b">>)],
            [product_id |-> JSNum(12), tag_id |-> JSStr(<<"2">>)] >>
    [] OTHER ->
         << [product_id |-> JSNum(1), shop_id |-> JSNum(2)],
            [product_id |-> JSNum(2), shop_id |-> JSNum(1)],
            [product_id |-> JSNum(2), shop_id |-> JSNum(2)] >>

\* TABLE_CONFIG.relations: manyToOne as its keys in Object.keys order with
\* their column pairs, manyToMany as the list of junction descriptors
NoRelations == [manyToOne |-> <<>>, manyToMany |-> <<>>]
OrdersOfProduct == [tableName |-> "orders", columnNames |-> <<[fk |-> "a", target |-> "id"]>>]
TagsOfProduct ==
  [relationTable |-> "products_tags", localId |-> "id", foreignKey |-> "product_id",
   remoteTable |-> "tags", remoteId |-> "code", remoteForeignKey |-> "tag_id"]
ShopsOfProduct ==
  [relationTable |-> "products_shops", localId |-> "id", foreignKey |-> "product_id",
   remoteTable |-> "shops", remoteId |-> "sid", remoteForeignKey |-> "shop_id"]

RelationChoices ==
  { NoRelations,
    [manyToOne |-> <<OrdersOfProduct>>, manyToMany |-> <<>>],
    [manyToOne |-> <<>>, manyToMany |-> <<TagsOfProduct, ShopsOfProduct>>],
    [manyToOne |-> <<OrdersOfProduct>>, manyToMany |-> <<TagsOfProduct, ShopsOfProduct>>] }

\* the names related rows are attached under
RelatedNames == {"orders", "tags", "shops"}

\* the value of a key in one result row
EntryValue(entry, key) == entry[CHOOSE i \in DOMAIN entry : entry[i].key = key].value

\* relatedData.fk.indexOf(column) >= 0, for the one-letter column names of orders
IndexOfFound(fk, column) == fk = column

\* one relation sub-query in flight: the query the store is running for it
NoSubError == NoRejection
Task(kind, name, relation, query) ==
  [kind |-> kind, name |-> name, relation |-> relation, query |-> query,
   state |-> "started", rows |-> <<>>, error |-> NoSubError, rank |-> 0]

\* the error of the store when it fails the query on a table
SubQueryError(table) == [name |-> "Error", status |-> 0, message |-> <<"store", table>>]

\* getRelatedRow: the detail columns of the related table but the join columns,
\* where every fk equals the parent's target value
getRelatedRow(tableName, columnNames, parentData) ==
  LET columns == StoreShape(tableName).columns
      names == [i \in DOMAIN columns |-> columns[i].name]
      requestedColumns ==
        SelectSeq(names, LAMBDA column :
          ~\E i \in DOMAIN columnNames : IndexOfFound(columnNames[i].fk, column))
  IN [EmptyQuery EXCEPT
        !.table = tableName,
        !.distinct = [set |-> FALSE, columns |-> requestedColumns],
        !.wheres = [i \in DOMAIN columnNames |->
                      Where(IF i = 1 THEN "where" ELSE "andWhere", columnNames[i].fk, "=",
                            EntryValue(parentData, columnNames[i].target))]]

\* getManyToOneRelationQueries: one started query per related table
getManyToOneRelationQueries(TABLE_CONFIG, parentData) ==
  LET MANY_TO_ONE == TABLE_CONFIG.relations.manyToOne
  IN [i \in DOMAIN MANY_TO_ONE |->
        Task("manyToOne", MANY_TO_ONE[i].tableName, NoRelations,
             getRelatedRow(MANY_TO_ONE[i].tableName, MANY_TO_ONE[i].columnNames, parentData))]

\* the junction query that reads the junction rows of every parent
JunctionQuery_EveryParent(relation, parentData) ==
  [EmptyQuery EXCEPT !.table = relation.relationTable]

\* the junction query of a many-to-many relation
JunctionQuery(relation, parentData) ==
  [EmptyQuery EXCEPT
     !.table = relation.relationTable,
     !.wheres = <<Where("where", relation.foreignKey, "=",
                        EntryValue(parentData, relation.localId))>>]

\* the remote-table query, once the junction rows are known
RemoteQuery(relation, relationResult) ==
  LET relationRemoteIds ==
        [i \in DOMAIN relationResult |->
           EntryValue(relationResult[i], relation.remoteForeignKey)]
  IN [EmptyQuery EXCEPT
        !.table = relation.remoteTable,
        !.wheres = <<Where("whereIn", relation.remoteId, "in", JSArr(relationRemoteIds))>>]

\* getManyToManyRelationQueries: one started junction query per relation
getManyToManyRelationQueries(TABLE_CONFIG, parentData) ==
  LET MANY_TO_MANY == TABLE_CONFIG.relations.manyToMany
  IN [i \in DOMAIN MANY_TO_MANY |->
        Task("manyToMany", MANY_TO_MANY[i].remoteTable,
             [manyToOne |-> <<>>, manyToMany |-> <<MANY_TO_MANY[i]>>],
             JunctionQuery(MANY_TO_MANY[i], parentData))]

\* mergeRelatedData: the related rows under their table names, many-to-one
\* first, many-to-many after
NoAttached == [k \in RelatedNames |-> NoEntry]
RECURSIVE Attach(_, _)
Attach(attached, relations) ==
  IF relations = <<>> THEN attached
  ELSE Attach([attached EXCEPT ![Head(relations).name] =
                 [has |-> TRUE, value |-> Head(relations).rows]],
              Tail(relations))

mergeRelatedData(result, manyToOneRelations, manyToManyRelations) ==
  [row |-> result, attached |-> Attach(Attach(NoAttached, manyToOneRelations),
                                       manyToManyRelations)]

----------------------------------------------------------------------------
(* getRowData on the store, with its relation sub-queries in flight together *)

RowTables ==
  {[relations |-> rel] @@ TableConfig(DataTable, RolesArray(<<"all">>), hooks) :
     rel \in RelationChoices, hooks \in {NoHooks, AllHooks}}

\* req.body.pk of the row requests: a product that exists or not, or no key
RowKeys ==
  {<<>>} \cup {<<[key |-> "id", value |-> JSNum(n)]>> : n \in {1, 2, 3, 12}}

RowRequest(table, pk, includeRelations) ==
  [op |-> "getRowData", table |-> table, user |-> NoUser, db |-> TRUE, pk |-> pk,
   hasData |-> FALSE, page |-> JSUndef, limit |-> JSUndef, filter |-> NoFilter,
   includeRelations |-> includeRelations]

InitRow ==
  /\ PureIdle
  /\ CtlIdle
  /\ DataIdle

RowReceive ==
  /\ pc = "idle"
  /\ \E t \in RowTables, pk \in RowKeys, includeRelations \in BOOLEAN :
       req' = RowRequest(t, pk, includeRelations)
  /\ pc' = "called"
  /\ authz' = "none" /\ trace' = <<>> /\ nextArgs' = <<>>
  /\ rejected' = NoRejection /\ QUERY' = EmptyQuery
  /\ UNCHANGED <<pureVars, dataVars>>

\* the relation queries the .then after the row query starts
RelationQueries(TABLE_CONFIG, result) ==
  getManyToOneRelationQueries(TABLE_CONFIG, result)
    \o getManyToManyRelationQueries(TABLE_CONFIG, result)

\* the row query answers and the next .then starts every relation query, or
\* throws on a missing row; or the row query fails
RowExecuteQuery ==
  /\ pc = "execute"
  /\ trace' = Append(trace, "query")
  /\ \/ LET rows == Answer(QUERY, req.table, ProductsRows)
            wanted == req.includeRelations /\ req.table.relations # NoRelations
        IN /\ results' = [results EXCEPT !.rows = rows]
           /\ IF wanted /\ rows = <<>>
              THEN /\ pc' = "catch" /\ tasks' = tasks
                   /\ rejected' = TypeError(<<"Cannot read property of undefined">>)
              ELSE /\ pc' = "relations" /\ rejected' = rejected
                   /\ tasks' = IF wanted THEN RelationQueries(req.table, rows[1]) ELSE <<>>
     \/ pc' = "catch" /\ rejected' = StoreError /\ UNCHANGED <<results, tasks>>
  /\ UNCHANGED <<req, authz, nextArgs, QUERY, pureVars, cache, hookResult>>

\* the relation queries that have resolved or rejected
Settled(ts) == {i \in DOMAIN ts : ts[i].state \in {"done", "failed"}}

\* the store answers the query of a relation: the last query of the relation
\* resolves it, a junction query is followed by the remote-table query
SubQueryAnswered(task, rank) ==
  LET table == task.query.table
      answer == Answer(task.query, StoreShape(table), StoreRows(table))
  IN IF task.kind = "manyToMany" /\ task.state = "started"
     THEN [task EXCEPT !.state = "remote",
                       !.query = RemoteQuery(task.relation.manyToMany[1], answer)]
     ELSE [task EXCEPT !.state = "done", !.rows = answer, !.rank = rank]

\* a failed relation query counted as a relation without rows
SubQueryFailed_NoRows(task, rank) ==
  [task EXCEPT !.state = "done", !.rows = <<>>, !.rank = rank]

\* the store fails the query of a relation: the promise of the relation rejects
SubQueryFailed(task, rank) ==
  [task EXCEPT !.state = "failed", !.error = SubQueryError(task.query.table),
               !.rank = rank]

\* one relation sub-query completes, in any order with the others; the first
\* rejection rejects the Promise.all the handler waits on
RelationQuery(i) ==
  /\ pc \in {"relations", "catch"}
  /\ tasks[i].state \in {"started", "remote"}
  /\ LET rank == Cardinality(Settled(tasks)) + 1
     IN \/ /\ tasks' = [tasks EXCEPT ![i] = SubQueryAnswered(tasks[i], rank)]
           /\ trace' = Append(trace, "query")
           /\ UNCHANGED <<pc, rejected>>
        \/ /\ tasks' = [tasks EXCEPT ![i] = SubQueryFailed(tasks[i], rank)]
           /\ trace' = Append(Append(trace, "query"), "fail")
           /\ IF pc = "relations" /\ tasks'[i].state = "failed"
              THEN pc' = "catch" /\ rejected' = tasks'[i].error
              ELSE UNCHANGED <<pc, rejected>>
  /\ UNCHANGED <<req, authz, nextArgs, QUERY, pureVars, cache, hookResult, results>>

\* Promise.all resolves when one relation query has resolved
PromiseAll_Any(ts) == ts = <<>> \/ \E i \in DOMAIN ts : ts[i].state = "done"

\* Promise.all([result, Promise.all(manyToOne), Promise.all(manyToMany)]) resolves
PromiseAll(ts) == \A i \in DOMAIN ts : ts[i].state = "done"

\* .then(this.mergeRelatedData)
RowJoin ==
  /\ pc = "relations"
  /\ PromiseAll(tasks)
  /\ results' =
       [results EXCEPT !.data =
          mergeRelatedData(IF results.rows = <<>> THEN <<>> ELSE results.rows[1],
                           SelectSeq(tasks, LAMBDA t : t.kind = "manyToOne"),
                           SelectSeq(tasks, LAMBDA t : t.kind = "manyToMany"))]
  /\ pc' = "after"
  /\ UNCHANGED <<req, authz, trace, nextArgs, rejected, QUERY, pureVars, cache,
                 hookResult, tasks>>

NextRow ==
  \/ RowReceive
  \/ CallHandler
  \/ ComposeQuery
  \/ RowExecuteQuery
  \/ \E i \in DOMAIN tasks : RelationQuery(i)
  \/ RowJoin
  \/ AfterHook
  \/ AddToResponse
  \/ NextAndReturn
  \/ Catch
  \/ Finish

SpecRow == InitRow /\ [][NextRow]_vars

----------------------------------------------------------------------------
(* Properties of the relation queries of getRowData *)

\* the row the request names, as the row query returns it
ParentRow == results.rows[1]

\* the request asks for the relations of a row that exists
WithRelations ==
  /\ req.op = "getRowData" /\ req.includeRelations
  /\ pc \in {"relations", "after", "res", "next", "catch", "done"}
  /\ results.rows # <<>>

\* the rows of a table that satisfy a condition, with all their columns or
\* with the columns named
RowsWhere(table, columns, Cond(_)) ==
  LET rows == SelectSeq(StoreRows(table), Cond)
  IN [i \in DOMAIN rows |-> Project(rows[i], columns)]

AllColumns(table) ==
  [i \in DOMAIN StoreShape(table).columns |-> StoreShape(table).columns[i].name]

\* the remote rows of a many-to-many relation of the parent: those whose remote
\* id is a remote foreign key of a junction row that references the parent
RemoteRows(relation, parent) ==
  LET junction == {j \in Range(StoreRows(relation.relationTable)) :
                     j[relation.foreignKey] = EntryValue(parent, relation.localId)}
  IN RowsWhere(relation.remoteTable, AllColumns(relation.remoteTable),
               LAMBDA r : \E j \in junction :
                            r[relation.remoteId] = j[relation.remoteForeignKey])

\* the rows of a many-to-one related table joined on the declared column pairs,
\* without the join columns
JoinedRows(related, parent) ==
  LET fks == {related.columnNames[i].fk : i \in DOMAIN related.columnNames}
  IN RowsWhere(related.tableName,
               SelectSeq(AllColumns(related.tableName), LAMBDA c : c \notin fks),
               LAMBDA r : \A i \in DOMAIN related.columnNames :
                            r[related.columnNames[i].fk] =
                              EntryValue(parent, related.columnNames[i].target))

\* the parent row with the rows of every declared relation, from the store alone
ExpectedRow(TABLE_CONFIG, parent, includeRelations) ==
  LET rel == TABLE_CONFIG.relations
      Of(name) ==
        IF ~includeRelations THEN NoEntry
        ELSE IF \E i \in DOMAIN rel.manyToMany : rel.manyToMany[i].remoteTable = name
        THEN [has |-> TRUE,
              value |-> RemoteRows(
                rel.manyToMany[CHOOSE i \in DOMAIN rel.manyToMany :
                                 rel.manyToMany[i].remoteTable = name], parent)]
        ELSE IF \E i \in DOMAIN rel.manyToOne : rel.manyToOne[i].tableName = name
        THEN [has |-> TRUE,
              value |-> JoinedRows(
                rel.manyToOne[CHOOSE i \in DOMAIN rel.manyToOne :
                                rel.manyToOne[i].tableName = name], parent)]
        ELSE NoEntry
  IN [row |-> parent, attached |-> [name \in RelatedNames |-> Of(name)]]

\* C17: in getRow with includeRelations, every many-to-one and many-to-many
\* relation query of the parent row is in flight before any of them is
\* awaited; the after hook and the response write happen only after every one
\* has completed; the merged parent row is the same for every order in which
\* the relation queries complete.
C17_FanOutFanIn ==
  WithRelations =>
    /\ pc # "catch" =>
         Len(tasks) = Len(req.table.relations.manyToOne)
                        + Len(req.table.relations.manyToMany)
    /\ (pc \in {"after", "res", "next"} \/ Events \cap {"hook.after", "res"} # {}) =>
         /\ \A i \in DOMAIN tasks : tasks[i].state = "done"
         /\ results.data = ExpectedRow(req.table, ParentRow, TRUE)

\* the three relations of a product completed in the reverse of the order they
\* were started in, and the row with its orders, tags and shops was delivered
C17_Witness ==
  /\ WithRelations /\ pc = "done" /\ nextArgs = <<NoError>>
  /\ Len(tasks) = 3
  /\ tasks[1].rank = 3 /\ tasks[2].rank = 2 /\ tasks[3].rank = 1
  /\ \A name \in RelatedNames : results.data.attached[name].value # <<>>

\* the relation query that rejected first
FirstFailed(i) ==
  /\ tasks[i].state = "failed"
  /\ \A j \in DOMAIN tasks : tasks[j].state = "failed" => tasks[i].rank <= tasks[j].rank

\* C18: in getRow with includeRelations, if any one relation sub-query
\* (many-to-one, junction-table or remote-table query) fails, the whole
\* operation fails: the after hook is not invoked, nothing is written to the
\* response, and the caller receives the sub-query's error.
C18_SubQueryFailureFailsAll ==
  (WithRelations /\ "fail" \in Events) =>
    /\ pc \in {"catch", "done"}
    /\ Events \cap {"hook.after", "res"} = {}
    /\ pc = "done" => \E i \in DOMAIN tasks : FirstFailed(i) /\ nextArgs = <<tasks[i].error>>

\* the remote-table query of the tags relation failed after the orders query
\* had resolved, and the caller got the error of the tags query
C18_Witness ==
  /\ WithRelations /\ pc = "done"
  /\ Len(tasks) = 3 /\ tasks[1].state = "done"
  /\ tasks[2].state = "failed" /\ tasks[2].query.table = "tags"
  /\ nextArgs = <<SubQueryError("tags")>>

\* C20: for a parent row and each declared many-to-many relation, the rows
\* attached to the parent under the remote table's name are exactly the
\* remote-table rows whose remote id is among the remote foreign-key values of
\* the junction rows that reference the parent's local-id value.
C20_ManyToManyRows ==
  (WithRelations /\ pc \in {"after", "res", "next", "done"} /\ rejected = NoRejection) =>
    \A i \in DOMAIN req.table.relations.manyToMany :
      LET relation == req.table.relations.manyToMany[i]
          attached == results.data.attached[relation.remoteTable]
          ids == {j[relation.remoteForeignKey] :
                    j \in {x \in Range(StoreRows(relation.relationTable)) :
                             x[relation.foreignKey] = EntryValue(ParentRow, relation.localId)}}
      IN /\ attached.has
         /\ Range(attached.value) =
              {Project(r, AllColumns(relation.remoteTable)) :
                 r \in {x \in Range(StoreRows(relation.remoteTable)) :
                          x[relation.remoteId] \in ids}}
         /\ Cardinality(Range(attached.value)) = Len(attached.value)

\* product 1 has two junction rows, for the tags a and b: both tag rows, and
\* no other, are attached under tags
C20_Witness ==
  /\ WithRelations /\ pc = "done" /\ nextArgs = <<NoError>>
  /\ EntryValue(ParentRow, "id") = JSNum(1)
  /\ Len(req.table.relations.manyToMany) = 2
  /\ Len(results.data.attached["tags"].value) = 2
  /\ {EntryValue(results.data.attached["tags"].value[k], "code") : k \in 1..2} =
       {JSStr(<<"a">>), JSStr(<<"b">>)}

----------------------------------------------------------------------------
(* addVerboseRelatedData applied to drawn batches of rows *)

\* the most rows in one batch
MaxRows == 2

\* column.relation of a column, and the columns of the items table that carry one
Relation(table, key, display) == [table |-> table, key |-> key, display |-> display]
RelationColumn(name, relation) == [name |-> name, relation |-> relation]
TagColumn == RelationColumn("tag", Relation("tags", "code", "label"))
AltTagColumn == RelationColumn("alt_tag", Relation("tags", "code", "label"))
ShopColumn == RelationColumn("shop", Relation("shops", "sid", "city"))

\* getColumnsWithRelations(TABLE_CONFIG): the relation columns, in declaration order
ColumnsWithRelations ==
  { <<TagColumn>>, <<TagColumn, ShopColumn>>, <<TagColumn, AltTagColumn>>,
    <<TagColumn, ShopColumn, AltTagColumn>> }

\* the rows a batch can hold: foreign keys with and without a related row
VerboseRows ==
  {[tag |-> t, alt_tag |-> a, shop |-> s, title |-> JSStr(<<"a">>)] :
     t \in {JSStr(<<"a">>), JSStr(<<"b">>), JSStr(<<"2">>)},
     a \in {JSStr(<<"a">>), JSStr(<<"b">>), JSStr(<<"2">>)},
     s \in {JSNum(1), JSNum(2), JSNum(12)}}

toRequestBuilder(relation, columnName) ==
  [table |-> relation.table, values |-> <<>>, key |-> relation.key,
   display |-> relation.display, foreignKeyColumn |-> columnName]

\* the position of the entry of a table in toRequest, 0 when it has none
RequestedAt(toRequest, table) ==
  IF \E j \in DOMAIN toRequest : toRequest[j].table = table
  THEN CHOOSE j \in DOMAIN toRequest : toRequest[j].table = table
  ELSE 0

\* results.forEach(row => COLUMNS_WITH_RELATIONS.forEach(column => ...)) from
\* the k-th visit on: one entry per related table, built for the first column
\* that names the table, with the values of every column that names it
RECURSIVE ToRequestLoop(_, _, _, _)
ToRequestLoop(toRequest, rows, columns, k) ==
  IF k > Len(rows) * Len(columns) THEN toRequest
  ELSE LET row == rows[((k - 1) \div Len(columns)) + 1]
           column == columns[((k - 1) % Len(columns)) + 1]
           at == RequestedAt(toRequest, column.relation.table)
           built == IF at = 0
                    THEN Append(toRequest, toRequestBuilder(column.relation, column.name))
                    ELSE toRequest
           j == IF at = 0 THEN Len(built) ELSE at
           value == row[column.name]
       IN ToRequestLoop(
            [built EXCEPT ![j].values = IF value \in Range(@) THEN @ ELSE Append(@, value)],
            rows, columns, k + 1)

\* DB.select(display, key).from(tableName).whereIn(key, values)
VerboseQuery(requestedTable) ==
  [EmptyQuery EXCEPT
     !.table = requestedTable.table,
     !.distinct = [set |-> FALSE,
                   columns |-> <<requestedTable.display, requestedTable.key>>],
     !.wheres = <<Where("whereIn", requestedTable.key, "in",
                        JSArr(requestedTable.values))>>]

\* MATCHER[FOREIGN_KEY_COLUMN][value]: the display of the last related row whose
\* key, as a property name, is the value; undefined when there is none
Matched(requestedTable, relationResult, value) ==
  LET hits == {i \in DOMAIN relationResult :
                 ToChars(EntryValue(relationResult[i], requestedTable.key)) = ToChars(value)}
  IN IF hits = {} THEN JSUndef
     ELSE EntryValue(relationResult[CHOOSE i \in hits : \A h \in hits : h <= i],
                     requestedTable.display)

\* Object.values(toRequest).forEach(requestedTable => row[ROW_KEY] = ...) from
\* the j-th entry on
RECURSIVE RewriteRow(_, _, _)
RewriteRow(row, toRequest, j) ==
  IF j > Len(toRequest) THEN row
  ELSE LET requestedTable == toRequest[j]
           ROW_KEY == requestedTable.foreignKeyColumn
           table == requestedTable.table
           relationResult == Answer(VerboseQuery(requestedTable), StoreShape(table),
                                    StoreRows(table))
       IN RewriteRow([row EXCEPT ![ROW_KEY] = Matched(requestedTable, relationResult, @)],
                     toRequest, j + 1)

addVerboseRelatedData(rows, COLUMNS_WITH_RELATIONS) ==
  LET toRequest == ToRequestLoop(<<>>, rows, COLUMNS_WITH_RELATIONS, 1)
  IN [i \in DOMAIN rows |-> RewriteRow(rows[i], toRequest, 1)]

InitVerbose ==
  /\ fn = "addVerboseRelatedData"
  /\ arg \in [rows : SeqsUpTo(VerboseRows, MaxRows), columns : ColumnsWithRelations]
  /\ ret = NotReturned
  /\ CtlIdle
  /\ DataIdle

CallAddVerboseRelatedData ==
  /\ fn = "addVerboseRelatedData" /\ ~ret.done
  /\ ret' = [done |-> TRUE, val |-> addVerboseRelatedData(arg.rows, arg.columns)]
  /\ UNCHANGED <<fn, arg, ctlVars, dataVars>>

NextVerbose == CallAddVerboseRelatedData

SpecVerbose == InitVerbose /\ [][NextVerbose]_vars

\* the display value of the related row of a relation whose key is the value
DisplayOf(relation, value) ==
  LET related == {r \in Range(StoreRows(relation.table)) : r[relation.key] = value}
  IN IF related = {} THEN JSUndef
     ELSE (CHOOSE r \in related : TRUE)[relation.display]

\* C19: after verbose substitution of a batch of rows, every column that has
\* a relation descriptor (also when several relation columns target different
\* tables or the same one) holds, in every row, the display value of the row of
\* that column's related table whose key equals the column's original
\* foreign-key value, and undefined when there is no such related row.
C19_VerboseSubstitution ==
  (fn = "addVerboseRelatedData" /\ ret.done) =>
    \A i \in DOMAIN arg.rows : \A c \in DOMAIN arg.columns :
      LET column == arg.columns[c]
      IN ret.val[i][column.name] = DisplayOf(column.relation, arg.rows[i][column.name])

----------------------------------------------------------------------------
(* Search composer *)

\* the forEach over searchFields of the group callback from position index on
RECURSIVE SearchLoop(_, _, _)
SearchLoop(searchFields, search, index) ==
  IF index > Len(searchFields) THEN <<>>
  ELSE <<Where(IF index = 1 THEN "where" ELSE "orWhere", searchFields[index], "like",
               JSStr(<<"%">> \o search \o <<"%">>))>>
         \o SearchLoop(searchFields, search, index + 1)

\* the search composer that stops after the first search field
applyQuerySearch_FirstFieldOnly(QRY, search, TABLE_CONFIG) ==
  AddWhere(QRY, Where("where", "", "group",
                      JSArr(SearchLoop(SubSeq(TABLE_CONFIG.searchFields, 1,
                                              IF TABLE_CONFIG.searchFields = <<>> THEN 0 ELSE 1),
                                       search, 1))))

\* TABLE_CONFIG.searchFields is <<>> when the configuration declares none
applyQuerySearch(QRY, search, TABLE_CONFIG) ==
  AddWhere(QRY, Where("where", "", "group",
                      JSArr(SearchLoop(TABLE_CONFIG.searchFields, search, 1))))

\* the predicates the builder compiles: a group without members gives none
Compiled(QRY) ==
  SelectSeq(QRY.wheres, LAMBDA w : ~(w.operator = "group" /\ w.value.items = <<>>))

(* applyQuerySearch applied to filtered queries, drawn search terms and search fields *)

SearchTerms == SeqsUpTo({"a", "b", "1"}, MaxStr)
SearchFieldChoices == KeyLists({"id", "stock", "name"}, 2)
SearchFilters == FilterMaps(FilterTable, 1)

InitSearch ==
  /\ fn = "applyQuerySearch"
  /\ arg \in [filter : SearchFilters, search : SearchTerms,
              table : {[searchFields |-> sf] @@ FilterTable : sf \in SearchFieldChoices}]
  /\ ret = NotReturned
  /\ CtlIdle
  /\ DataIdle

CallApplyQuerySearch ==
  /\ fn = "applyQuerySearch" /\ ~ret.done
  /\ ret' = [done |-> TRUE,
             val |-> applyQuerySearch(
                       applyQueryFilters(EmptyQuery, arg.filter, arg.table).query,
                       arg.search, arg.table)]
  /\ UNCHANGED <<fn, arg, ctlVars, dataVars>>

NextSearch == CallApplyQuerySearch

SpecSearch == InitSearch /\ [][NextSearch]_vars

\* the query as the filter alone leaves it
BeforeSearch == applyQueryFilters(EmptyQuery, arg.filter, arg.table).query

----------------------------------------------------------------------------
(* Properties of the filter and order inputs of the handlers *)

\* the filter map of the request names a column the table does not declare
UndeclaredFilter(r) ==
  /\ r.filter.present
  /\ \E i \in DOMAIN r.filter.entries : r.filter.entries[i].key \notin ColumnNames(r.table)

\* C22: when the filter map of a request names a column that the table
\* configuration does not declare, no query executes and the operation ends
\* with the typed InvalidFilter client error (status 400).
C22_InvalidFilter400 ==
  (/\ req.op \in {"getTableData", "getDistinctTableData", "getTableCount"}
   /\ UndeclaredFilter(req)) =>
    /\ "query" \notin Events
    /\ (pc = "done" /\ rejected \notin {NoRejection, HookError}
          /\ ~TableController_requirementsCheck(req.table, req.user, req.db).rejected) =>
         /\ nextArgs # <<>>
         /\ nextArgs[Len(nextArgs)].name = "HttpException"
         /\ nextArgs[Len(nextArgs)].status = 400

\* C23: when the order of a list request is not valid JSON, no query executes
\* and the operation ends with the InvalidOrder client error (status 400)
\* passed to next by the handler's catch.
C23_InvalidOrder400 ==
  (/\ req.op = "getTableData"
   /\ Truthy(req.order) /\ JSONParseThrows(req.order.s)) =>
    /\ "query" \notin Events
    /\ (pc = "done" /\ rejected \notin {NoRejection, HookError}
          /\ ~TableController_requirementsCheck(req.table, req.user, req.db).rejected
          /\ ~UndeclaredFilter(req)) =>
         /\ Len(nextArgs) = 1
         /\ nextArgs[1].name = "HttpException"
         /\ nextArgs[1].status = 400

----------------------------------------------------------------------------
(* The select list of a many-to-one sub-query, on column names as texts *)

\* one column declaration with its visibility per target
VisibleColumn(name, main, detail) ==
  [name |-> name, visible |-> [main |-> main, detail |-> detail]]

\* table.pk.indexOf(name) >= 0: a text search in a string pk, a member search
\* in a list pk
PKIndexOfFound(pk, name) ==
  IF pk.isArray THEN \E i \in DOMAIN pk.items : pk.items[i] = name
  ELSE Contains(pk.name, name)

\* filterVisibleTableColumns: the names of the columns visible on the target,
\* of the pk columns, and (on main) of the columns of the chips
filterVisibleTableColumns(table, target) ==
  LET toKeep == IF target = "main"
                THEN UNION {Range(table.chips[i].columns) : i \in DOMAIN table.chips}
                ELSE {}
      kept == SelectSeq(table.columns, LAMBDA column :
                \/ column.visible[target]
                \/ PKIndexOfFound(table.pk, column.name)
                \/ column.name \in toKeep)
  IN [i \in DOMAIN kept |-> kept[i].name]

\* the select list of getRelatedRow: the detail columns of the related table
\* without those that relatedData.fk.indexOf(column) >= 0 finds in a join column
requestedColumns(TABLE_CONFIG, columnNames) ==
  SelectSeq(filterVisibleTableColumns(TABLE_CONFIG, "detail"), LAMBDA column :
    ~\E i \in DOMAIN columnNames : Contains(columnNames[i].fk, column))

(* requestedColumns applied to drawn related tables and join columns *)

NameTexts == SeqsUpTo({"i", "d"}, MaxStr) \ {<<>>}

\* the declarations of up to two columns with distinct names
RelatedColumnLists ==
  {cs \in SeqsUpTo({VisibleColumn(n, TRUE, d) : n \in NameTexts, d \in BOOLEAN}, 2) :
     cs # <<>> /\ Injective([i \in DOMAIN cs |-> cs[i].name])}

\* the pk of a related table: its first column, as a string or as a list
RelatedPKs(cs) ==
  { [isArray |-> FALSE, name |-> cs[1].name, items |-> <<>>],
    [isArray |-> TRUE, name |-> <<>>, items |-> <<cs[1].name>>] }

\* the join columns of a relation: distinct columns of the related table
JoinColumnLists(cs) ==
  {[i \in DOMAIN ks |-> [fk |-> ks[i], target |-> "id"]] :
     ks \in {l \in SeqsUpTo({cs[i].name : i \in DOMAIN cs}, 2) : l # <<>> /\ Injective(l)}}

InitRelated ==
  /\ fn = "requestedColumns"
  /\ \E cs \in RelatedColumnLists :
       arg \in [table : {[name |-> "orders", columns |-> cs, pk |-> pk, chips |-> ch] :
                           pk \in RelatedPKs(cs),
                           ch \in {<<>>, <<[columns |-> <<cs[1].name>>]>>}},
                columnNames : JoinColumnLists(cs)]
  /\ ret = NotReturned
  /\ CtlIdle
  /\ DataIdle

CallRequestedColumns ==
  /\ fn = "requestedColumns" /\ ~ret.done
  /\ ret' = [done |-> TRUE, val |-> requestedColumns(arg.table, arg.columnNames)]
  /\ UNCHANGED <<fn, arg, ctlVars, dataVars>>

NextRelated == CallRequestedColumns

SpecRelated == InitRelated /\ [][NextRelated]_vars

\* C24: the columns selected from the related table of a many-to-one relation
\* are exactly its detail-visible columns that are not join columns of the
\* relation, whatever the names: a name that is a substring of a join column's
\* name is selected, and no column that is not detail-visible is selected.
C24_SelectedColumns ==
  (fn = "requestedColumns" /\ ret.done) =>
    Range(ret.val) =
      {arg.table.columns[i].name : i \in
         {j \in DOMAIN arg.table.columns :
            /\ arg.table.columns[j].visible.detail
            /\ \A k \in DOMAIN arg.columnNames :
                 arg.columnNames[k].fk # arg.table.columns[j].name}}

----------------------------------------------------------------------------
(* Parent-table filters: the rows of a table that belong to a row of its parent *)

\* a column declaration that may name the table it relates to ("" for none)
ParentColumn(column, relationTable) ==
  [name |-> column.name, type |-> column.type, relation |-> [table |-> relationTable]]

\* relations.manyToOne[name]: the join pairs declared for the table, <<>> for none
ManyToOnePairs(TABLE_CONFIG, name) ==
  LET MANY_TO_ONE == TABLE_CONFIG.relations.manyToOne
      is == {i \in DOMAIN MANY_TO_ONE : MANY_TO_ONE[i].tableName = name}
  IN IF is = {} THEN <<>> ELSE MANY_TO_ONE[CHOOSE i \in is : TRUE].columnNames

\* columns.find((col) => col.relation && col.relation.table): its position, 0 for none
FindRelationColumn(TABLE_CONFIG) ==
  LET is == {i \in DOMAIN TABLE_CONFIG.columns : TABLE_CONFIG.columns[i].relation.table # ""}
  IN IF is = {} THEN 0 ELSE CHOOSE i \in is : \A j \in is : i <= j

\* what applyParentTableFilters returns
ParentFilter(kind, built) == [kind |-> kind, built |-> built]

\* applyParentTableFilters: the pair [0] of the relation only, on either side;
\* junction stands for the query on the relation table of a many-to-many pair
applyParentTableFilters(QRY, table, parentTable, parentObj) ==
  LET oneToMany == ManyToOnePairs(table, parentTable.name)
      manyToOne == ManyToOnePairs(parentTable, table.name)
      parentColumn == FindRelationColumn(parentTable)
      column == FindRelationColumn(table)
      ofChild == {i \in DOMAIN table.relations.manyToMany :
                    table.relations.manyToMany[i].remoteTable = parentTable.name}
      ofParent == {i \in DOMAIN parentTable.relations.manyToMany :
                     parentTable.relations.manyToMany[i].remoteTable = table.name}
  IN IF oneToMany # <<>> /\ parentColumn # 0
     THEN ParentFilter("first",
            applyQueryFilters(QRY, <<[key |-> oneToMany[1].target,
                                      value |-> parentObj[parentTable.columns[parentColumn].name]]>>,
                              table))
     ELSE IF manyToOne # <<>> /\ column # 0
     THEN ParentFilter("rows",
            applyQueryFilters(QRY, <<[key |-> table.columns[column].name,
                                      value |-> parentObj[manyToOne[1].target]]>>,
                              table))
     ELSE IF ofChild # {} /\ ofParent # {}
     THEN ParentFilter("junction", Returned(QRY))
     ELSE ParentFilter("undefined", Returned(QRY))

(* getRelatedRow and applyParentTableFilters on orders and products, with drawn pairs *)

\* the join pairs between orders and products, as the parent declares them and
\* as the child declares them
PairsOfParent == {[fk |-> "a", target |-> "id"], [fk |-> "b", target |-> "name"],
                  [fk |-> "c", target |-> "name"]}
PairsOfChild == {[fk |-> "id", target |-> "a"], [fk |-> "name", target |-> "b"],
                 [fk |-> "name", target |-> "c"]}
PairLists(pairs) == {l \in SeqsUpTo(pairs, 2) : l # <<>> /\ Injective(l)}

\* every row the orders table can hold
OrderRows ==
  {[a |-> a, b |-> b, c |-> c] :
     a \in {JSNum(1), JSNum(12)}, b \in {JSStr(<<"a">>), JSStr(<<"a", "b">>)},
     c \in {JSNull, JSStr(<<"a">>), JSStr(<<"a", "b">>)}}

\* a table of the pair: its columns, one of them (or none) naming a related
\* table, and the many-to-one relation it declares (or none)
RelatedConfig(shape, relationColumn, other, pairs) ==
  [name |-> shape.name, pk |-> shape.pk,
   columns |-> [i \in DOMAIN shape.columns |->
                  ParentColumn(shape.columns[i],
                               IF shape.columns[i].name = relationColumn THEN other ELSE "")],
   relations |-> [manyToOne |-> IF pairs = <<>> THEN <<>>
                                ELSE <<[tableName |-> other, columnNames |-> pairs]>>,
                  manyToMany |-> <<>>]]

ParentInputs ==
  [fn : {"getRelatedRow"}, side : {"parent"}, pairs : PairLists(PairsOfParent),
   column : {""}, parentObj : Range(ProductsRows)]
  \cup [fn : {"applyParentTableFilters"}, side : {"parent"}, pairs : PairLists(PairsOfParent),
        column : {"", "a", "b"}, parentObj : Range(ProductsRows)]
  \cup [fn : {"applyParentTableFilters"}, side : {"child"}, pairs : PairLists(PairsOfChild),
        column : {"", "id", "name"}, parentObj : Range(ProductsRows)]

InitParent ==
  /\ \E i \in ParentInputs :
       /\ fn = i.fn
       /\ arg = [side |-> i.side, pairs |-> i.pairs, column |-> i.column,
                 parentObj |-> i.parentObj]
  /\ ret = NotReturned
  /\ CtlIdle
  /\ DataIdle

CallGetRelatedRow ==
  /\ fn = "getRelatedRow" /\ ~ret.done
  /\ ret' = [done |-> TRUE,
             val |-> ParentFilter("rows", Returned(
                       getRelatedRow("orders", arg.pairs,
                                     Project(arg.parentObj, <<"id", "stock", "created", "name">>))))]
  /\ UNCHANGED <<fn, arg, ctlVars, dataVars>>

CallApplyParentTableFilters ==
  /\ fn = "applyParentTableFilters" /\ ~ret.done
  /\ LET orders == RelatedConfig(StoreShape("orders"),
                                 IF arg.side = "parent" THEN arg.column ELSE "", "products",
                                 IF arg.side = "child" THEN arg.pairs ELSE <<>>)
         products == RelatedConfig(StoreShape("products"),
                                   IF arg.side = "child" THEN arg.column ELSE "", "orders",
                                   IF arg.side = "parent" THEN arg.pairs ELSE <<>>)
     IN ret' = [done |-> TRUE,
                val |-> applyParentTableFilters([EmptyQuery EXCEPT !.table = "orders"],
                                                orders, products, arg.parentObj)]
  /\ UNCHANGED <<fn, arg, ctlVars, dataVars>>

NextParent == CallGetRelatedRow \/ CallApplyParentTableFilters

SpecParent == InitParent /\ [][NextParent]_vars

\* the order row satisfies every declared pair against the product row
AllPairsHold(row, side, pairs, parentObj) ==
  \A i \in DOMAIN pairs :
    IF side = "parent" THEN row[pairs[i].fk] = parentObj[pairs[i].target]
    ELSE row[pairs[i].target] = parentObj[pairs[i].fk]

\* C25: when a many-to-one relation declares several join-column pairs, the
\* query of getRelatedRow and the query of applyParentTableFilters select only
\* rows that satisfy all declared pairs, not just the first.
C25_AllPairsResolved ==
  (/\ fn \in {"getRelatedRow", "applyParentTableFilters"} /\ ret.done
   /\ Len(arg.pairs) >= 2 /\ ret.val.kind \in {"first", "rows"} /\ ~ret.val.built.threw) =>
    \A row \in OrderRows :
      Selects(ret.val.built.query, row) => AllPairsHold(row, arg.side, arg.pairs, arg.parentObj)

----------------------------------------------------------------------------
(* Properties of the distinct values returned and stored *)

\* the distinct values of one column among the rows the query selects
DistinctValues(QRY, TABLE_CONFIG, column) ==
  LET entries == Answer([QRY EXCEPT !.distinct = [set |-> TRUE, columns |-> <<column>>]],
                        TABLE_CONFIG, ProductsRows)
  IN [i \in DOMAIN entries |-> entries[i][1].value]

\* the requested columns the cache did not hold when the request was composed
Uncached(r) ==
  SelectSeq(r.columns, LAMBDA c : \A j \in DOMAIN results.toAdd : results.toAdd[j].name # c)

\* the distinct request has ended without an error
DistinctEnded ==
  req.op = "getDistinctTableData" /\ pc = "done" /\ nextArgs = <<NoError>>

\* C26: for every requested column that is not in the cache,
\* getDistinctTableData returns under the column's name the distinct values of
\* that column and stores that list under "distinct_" + column, also when
\* several uncached columns are requested in one call.
C26_UncachedColumnsReturnedAndStored ==
  DistinctEnded =>
    \A i \in DOMAIN Uncached(req) :
      LET column == Uncached(req)[i]
          values == [has |-> TRUE, value |-> DistinctValues(QUERY, req.table, column)]
      IN results.columns[column] = values /\ cache[column] = values

----------------------------------------------------------------------------
(* Properties of the rows an update or a delete reaches *)

\* the cells a key column of the type can hold: 1 and 12, as numbers or texts
KeyCellsOf(type) ==
  IF type \in {"int(11)", "smallint(5)"} THEN {JSNum(1), JSNum(12)}
  ELSE {JSStr(<<"1">>), JSStr(<<"1", "2">>)}

\* every row the table can hold with such cells
KeyRows(TABLE_CONFIG) ==
  {row \in [ColumnNames(TABLE_CONFIG) -> UNION {KeyCellsOf(t) : t \in {"int(11)", "varchar(255)"}}] :
     \A i \in DOMAIN TABLE_CONFIG.columns :
       row[TABLE_CONFIG.columns[i].name] \in KeyCellsOf(TABLE_CONFIG.columns[i].type)}

\* C27: the query an update or a delete by primary key runs selects only rows
\* whose primary-key columns are equal to the values of the payload, whatever
\* the declared type of the key columns; a row whose key only contains the
\* payload value is not reached.
C27_PKExactMatch ==
  (req.op \in {"updateRowData", "deleteRowData"} /\ pc = "execute") =>
    \A row \in KeyRows(req.table) :
      Selects(QUERY, row) =>
        \A i \in DOMAIN req.pk : SqlEquals(row[req.pk[i].key], req.pk[i].value)

----------------------------------------------------------------------------
(* getDistinctTableData on two tables with the same column names, called by *)
(* callers that may read one of them                                        *)

SharedTables ==
  {TableConfig(DataTable, RolesArray(<<"editor">>), hooks) : hooks \in {NoHooks, AllHooks}}
  \cup {TableConfig(AccountsTable, RolesArray(<<"admin">>), hooks) : hooks \in {NoHooks, AllHooks}}

SharedCallers == {User({"editor"}), User({"admin"})}

SharedColumns == KeyLists({"id", "name"}, MaxColumns) \ {<<>>}

SharedReceive ==
  /\ pc = "idle"
  /\ \E t \in SharedTables, u \in SharedCallers, c \in SharedColumns :
       req' = [DataRequest("getDistinctTableData", t, c, JSUndef, JSUndef, NoFilter)
                 EXCEPT !.user = u]
  /\ pc' = "called"
  /\ authz' = "none" /\ trace' = <<>> /\ nextArgs' = <<>>
  /\ rejected' = NoRejection /\ QUERY' = EmptyQuery
  /\ UNCHANGED <<pureVars, dataVars>>

NextShared ==
  \/ SharedReceive
  \/ CallHandler
  \/ DataBeforeHook
  \/ DataComposeQuery
  \/ DataExecuteQuery
  \/ DataAfterHook
  \/ AddToResponse
  \/ NextAndReturn
  \/ Catch
  \/ Finish

SpecShared == InitData /\ [][NextShared]_vars

\* C28: the distinct values a request on table T receives for a column are
\* values of that column in T; a caller who may read T and not U receives no
\* value that was fetched from the same-named column of U.
C28_DistinctValuesFromOwnTable ==
  DistinctEnded =>
    \A i \in DOMAIN req.columns :
      LET column == req.columns[i]
          values == results.columns[column].value
      IN \A j \in DOMAIN values :
           \E k \in DOMAIN DataRows(req.table.name) :
             DataRows(req.table.name)[k][column] = values[j]

----------------------------------------------------------------------------
(* Properties of the calls of next *)

\* C29: every table operation calls next exactly once per request, without an
\* argument when it succeeded and with the error when it failed, whatever the
\* outcome: unauthorized, no database handle, invalid input, query failure,
\* hook failure, success.
C29_NextExactlyOnce ==
  /\ Len(nextArgs) <= 1
  /\ pc = "done" =>
       /\ Len(nextArgs) = 1
       /\ nextArgs[1] = NoError <=> (rejected = NoRejection /\ "res" \in Events)

----------------------------------------------------------------------------
(* Properties of the cache across requests with different filters *)

\* the lists a distinct request without any filter can reduce for the column:
\* one per list of requested columns, the empty list (select distinct *) included
UnfilteredLists(TABLE_CONFIG, column) ==
  LET reduced ==
        {ReduceEntries(EmptyCache,
           Answer([EmptyQuery EXCEPT !.table = TABLE_CONFIG.name,
                                     !.distinct = [set |-> TRUE, columns |-> l]],
                  TABLE_CONFIG, DataRows(TABLE_CONFIG.name))) : l \in DataColumns \cup {<<>>}}
  IN {r[column].value : r \in {x \in reduced : x[column].has}}

\* C30: the distinct values a request receives for a column do not depend on
\* the filters, the search term or the before-hook filter of an earlier
\* request: a column answered from the cache carries a list that earlier
\* requests without any filter produce as well.
C30_IndependentOfEarlierFilters ==
  DistinctEnded =>
    \A j \in DOMAIN results.toAdd :
      results.columns[results.toAdd[j].name].value
        \in UnfilteredLists(req.table, results.toAdd[j].name)

----------------------------------------------------------------------------
(* updateRowData: the data object it writes and the row the store keeps *)

\* a Date: its time value in milliseconds, or the Invalid Date
Date(ms) == [t |-> "date", n |-> ms, s |-> <<>>, items |-> <<>>]
InvalidDate == [t |-> "date", n |-> 0, s |-> <<"N", "a", "N">>, items |-> <<>>]

\* new Date(v || null): the epoch for a falsy v, the time value for a number,
\* the Invalid Date for a text that is no date
NewDate(v) ==
  IF ~Truthy(v) THEN Date(0)
  ELSE IF v.t = "number" THEN Date(v.n)
  ELSE InvalidDate

\* data[key], undefined when the object has no such key
DataValue(data, key) ==
  LET is == {i \in DOMAIN data : data[i].key = key}
  IN IF is = {} THEN JSUndef ELSE data[CHOOSE i \in is : TRUE].value

\* data[key] = value: in place for a key the object has, appended otherwise
SetKey(data, key, value) ==
  IF \E i \in DOMAIN data : data[i].key = key
  THEN [i \in DOMAIN data |-> IF data[i].key = key THEN [key |-> key, value |-> value]
                              ELSE data[i]]
  ELSE Append(data, [key |-> key, value |-> value])

\* TABLE_CONFIG.columns.forEach of updateRowData from position index on: every
\* datetime column of the table is assigned a Date in req.body.data
RECURSIVE updateRowData_dates(_, _, _)
updateRowData_dates(data, TABLE_CONFIG, index) ==
  IF index > Len(TABLE_CONFIG.columns) THEN data
  ELSE LET column == TABLE_CONFIG.columns[index]
       IN updateRowData_dates(
            IF column.type = "datetime"
            THEN SetKey(data, column.name, NewDate(DataValue(data, column.name)))
            ELSE data,
            TABLE_CONFIG, index + 1)

\* the cells a column of the type can hold after an update
UpdateCellsOf(type) ==
  IF type = "datetime" THEN {JSNull, Date(0), Date(1), Date(5), InvalidDate}
  ELSE CellsOf(type)

\* normalize(data, TABLE_CONFIG): the objects it can return, with the keys of
\* data and, for every key, the value of data or another cell of the column
normalize(data, TABLE_CONFIG) ==
  {d \in [DOMAIN data -> [key : {data[i].key : i \in DOMAIN data},
                          value : {data[i].value : i \in DOMAIN data}
                                  \cup UNION {UpdateCellsOf(TABLE_CONFIG.columns[c].type) :
                                                c \in DOMAIN TABLE_CONFIG.columns}]] :
     \A i \in DOMAIN data :
       /\ d[i].key = data[i].key
       /\ \/ d[i].value = data[i].value
          \/ d[i].value \in UpdateCellsOf(TypeOf(TABLE_CONFIG, data[i].key))}

\* QUERY.update(data) on one stored row: the columns of data are written on the
\* row the query selects
UpdateRow(QRY, data, row) ==
  IF Selects(QRY, row)
  THEN [c \in DOMAIN row |->
          IF \E i \in DOMAIN data : data[i].key = c THEN DataValue(data, c) ELSE row[c]]
  ELSE row

(* updateRowData applied to a stored row of products and drawn data objects *)

\* the stored rows an update targets
UpdateRows ==
  {[id |-> JSNum(1), stock |-> k, created |-> c, name |-> n] :
     k \in {JSNum(1), JSNum(12)}, c \in {JSNull, Date(5)},
     n \in {JSStr(<<"a">>), JSStr(<<"a", "b">>)}}

\* req.body.data: each of stock, created and name supplied or not
UpdateData ==
  {SelectSeq(<<[key |-> "stock", value |-> k], [key |-> "created", value |-> c],
               [key |-> "name", value |-> n]>>,
             LAMBDA e : e.value # JSUndef) :
     k \in {JSUndef, JSNum(12)}, c \in {JSUndef, JSNull, JSNum(1), JSStr(<<"a">>)},
     n \in {JSUndef, JSStr(<<"a", "b">>)}}

InitUpdate ==
  /\ fn = "updateRowData"
  /\ arg \in [row : UpdateRows, data : UpdateData]
  /\ ret = NotReturned
  /\ CtlIdle
  /\ DataIdle

\* the chain of updateRowData on a table without hooks, with a database handle
CallUpdateRowData ==
  /\ fn = "updateRowData" /\ ~ret.done
  /\ LET TABLE_CONFIG == TableConfig(DataTable, RolesArray(<<"all">>), NoHooks)
         body == updateRowData_dates(arg.data, TABLE_CONFIG, 1)
         built == applyPKFilters([EmptyQuery EXCEPT !.table = TABLE_CONFIG.name],
                                 <<[key |-> "id", value |-> arg.row.id]>>, TABLE_CONFIG)
     IN \E newData \in normalize(body, TABLE_CONFIG) :
          LET data == runHook(TABLE_CONFIG, "updateRow", "before", TRUE, newData).value
          IN ret' = [done |-> TRUE,
                     val |-> [data |-> data, row |-> UpdateRow(built.query, data, arg.row)]]
  /\ UNCHANGED <<fn, arg, ctlVars, dataVars>>

NextUpdate == CallUpdateRowData

SpecUpdate == InitUpdate /\ [][NextUpdate]_vars

\* C31: an update changes only the columns present in the data object of the
\* request: every column of the targeted row that the payload does not
\* supply, datetime columns included, keeps its previous value.
C31_UnsuppliedColumnsKept ==
  (fn = "updateRowData" /\ ret.done) =>
    \A c \in DOMAIN arg.row :
      DataValue(arg.data, c) = JSUndef => ret.val.row[c] = arg.row[c]

====
